---- MODULE Spec2Model ----
(***************************************************************************)
(* Turn scheduler of the agent (agent/runtime/orchestrator.py): the turn   *)
(* loop of Orchestrator.run, the provider invocation with retries          *)
(* (_invoke_llm_with_logging), the execution of one decision's actions     *)
(* (_execute_actions), the self-handoff loop breaker, final-answer         *)
(* synthesis and the cooperative interrupt flag (runtime/signals.py).      *)
(*                                                                         *)
(* The language model, the command executor, the external-tool manager and *)
(* the operating system's signal delivery are the environment: every       *)
(* outcome they can produce is a nondeterministic choice.                  *)
(***************************************************************************)
EXTENDS Integers, Sequences, FiniteSets, TLC

\* ------------------------------------------------------------------ bounds
\* largest configured max_turns explored
MaxTurns == 2
\* largest configured max_llm_retries explored
MaxRetries == 1
\* most provider errors raised in one run
MaxLlmErrors == 2

\* --------------------------------------------------------------- value sets
Skills == {"X", "Y"}
OutputModes == {"json_only", "native_with_json_fallback", "native_only"}
FailurePolicies == {"retry_once_then_fallback_then_abort", "abort"}

VARIABLES
  config,                          \* AgentConfig fields read by the loop
  mcp_manager,                     \* "none" | "open" | "closed"
  pc,                              \* position of run() in its code
  turn_index,                      \* loop variable of the turn loop
  stop_requested,                  \* SignalState.stop_requested
  accumulated_results,             \* run-scoped list of StepExecutionResult
  consecutive_self_handoff_turns,
  blocked_self_handoff_skill,      \* "" stands for None
  prompt,                          \* prompt of the current invocation
  inv,                             \* locals of _invoke_llm_with_logging
  decision,                        \* ModelDecision being executed
  next_action,                     \* index into decision.planned_actions
  step_results,                    \* locals of _execute_actions
  stdout_files,                    \* this turn's stdout artifact per step
  should_finish,
  finish_summary,
  final_summary,
  transcript,                      \* records written to the transcript sink
  run_result,                      \* RunResult / run_failed reason
  provider_calls,                  \* calls of complete_structured, this run
  executor_calls,                  \* calls of executor.run, this run
  tool_calls,                      \* calls of mcp_manager.call_tool, this run
  turn_invocations,                \* invocations made in the current turn
  decoded_types,                   \* action types of the decoded decision
  recovered,                       \* recovery decision substituted this turn
  signal_turn,                     \* turn in progress when the signal came
  only_handoff_to,                 \* skill every decoded decision handed to
  executions,                      \* exit codes of the latest run_command
  disclosed_snippets,              \* run-scoped dict of disclosed content
  dry_run,                         \* argument dry_run of run()
  setup,                           \* what the setup part of run() found
  mcp_tool_catalog,                \* "empty" | "tools"
  events,                          \* run_started/run_failed/run_finished emitted
  message,                         \* RunResult.message ("" until run() returns)
  sink_state,                      \* one JsonlSink / LlmTranscriptSink in use
  args,                            \* arguments of the function under study
  returned                         \* what that function returned

cfgVars == <<config>>
loopVars == <<pc, turn_index, accumulated_results,
              consecutive_self_handoff_turns, blocked_self_handoff_skill,
              run_result>>
llmVars == <<prompt, inv, transcript, provider_calls, turn_invocations>>
execVars == <<decision, next_action, step_results, stdout_files, should_finish,
              finish_summary, final_summary, executor_calls, tool_calls,
              mcp_manager, decoded_types, recovered>>
sigVars == <<stop_requested, signal_turn>>
histVars == <<only_handoff_to, executions>>
fnVars == <<args, returned>>
discVars == <<disclosed_snippets>>
setupVars == <<dry_run, setup, mcp_tool_catalog>>
evVars == <<events, message>>
sinkVars == <<sink_state>>
vars == <<cfgVars, loopVars, llmVars, execVars, sigVars, histVars, discVars,
          setupVars, evVars, sinkVars, fnVars>>

\* ------------------------------------------------------------ data shapes
ActionStep(t, a) == [type |-> t, arg |-> a]

ModelDecision(sk, paths, acts) ==
  [selected_skill |-> sk, required_disclosure_paths |-> paths,
   planned_actions |-> acts]

Plan(sk, acts) == ModelDecision(sk, {}, acts)

\* The decisions the model's responses are drawn from.  arg is the parameter
\* the executor reads (command, skill_name, tool_name, message); a blank arg
\* is a value that is empty after strip().
Finish == ActionStep("finish", "done")
Cmd == ActionStep("run_command", "c")
BlankCmd == ActionStep("run_command", " ")
Call(skill) == ActionStep("call_skill", skill)
Mcp(tool) == ActionStep("mcp_call", tool)
Ask == ActionStep("ask_user", "")

Decisions ==
  { Plan("", <<>>),
    Plan("", <<Finish>>),
    Plan("", <<Cmd>>),
    Plan("X", <<Cmd, Finish>>),
    Plan("", <<Finish, Cmd>>),
    Plan("", <<BlankCmd, Cmd>>),
    Plan("X", <<Call("X")>>),
    Plan("X", <<Call("X"), Call("X")>>),
    Plan("Y", <<Call("Y")>>),
    Plan("X", <<Call("Y")>>),
    Plan("X", <<Call("X"), Finish>>),
    Plan("", <<Call("")>>),
    Plan("", <<Mcp("t")>>),
    Plan("", <<Mcp("t"), Finish>>),
    Plan("", <<Mcp("")>>),
    Plan("", <<Ask>>),
    Plan("", <<Ask, Finish>>) }

NoDecision == ModelDecision("", {}, <<>>)

StepExecutionResult(id, code, st, retries, out) ==
  [step_id |-> id, exit_code |-> code, status |-> st,
   retry_count |-> retries, stdout_artifact |-> out]

LlmTranscriptRecord(t, a, site, st, r) ==
  [turn_index |-> t, attempt |-> a, call_site |-> site, status |-> st,
   retryable |-> r]

RunResult(st, reason) == [status |-> st, reason |-> reason]
Running == RunResult("running", "")


Response(kind, d) == [kind |-> kind, decision |-> d]
NoResponse == Response("none", NoDecision)
NoError == [attempt |-> 0, retryable |-> FALSE]

\* --------------------------------------------------------- skill registry
\* default_action_params commands of each loaded skill, in table order
DefaultCommands(skill) == IF skill = "Y" THEN <<"cy">> ELSE <<>>

\* ---------------------------------------------------------------- helpers
\* decoder._repair_payload: an empty action list becomes a single finish
DecodeModelDecision(payload) ==
  IF payload.planned_actions = <<>>
  THEN [payload EXCEPT !.planned_actions = << ActionStep("finish", "") >>]
  ELSE payload

make_finish_decision == ModelDecision("", {}, << ActionStep("finish", "") >>)

\* A call_skill arg of "" is a skill_name that is empty after strip(): the
\* decoder fills a missing skill_name whenever a skill is selected.
IsSelfHandoffOnly(selected_skill, actions) ==
  /\ selected_skill # ""
  /\ actions # <<>>
  /\ \A i \in 1..Len(actions) :
       /\ actions[i].type = "call_skill"
       /\ actions[i].arg = selected_skill

RECURSIVE FirstCommands(_, _)
FirstCommands(cmds, n) ==
  IF cmds = <<>> \/ n = 0 THEN <<>>
  ELSE <<Head(cmds)>> \o FirstCommands(Tail(cmds), n - 1)

\* mutant: the recovery always probes with a command before finishing
BuildSelfHandoffRecoveryActions_probing(skill) ==
  << ActionStep("run_command", "cx"), ActionStep("finish", "recovered") >>

BuildSelfHandoffRecoveryActions(skill) ==
  LET commands == FirstCommands(DefaultCommands(skill), 2)
  IN [i \in 1..Len(commands) |-> ActionStep("run_command", commands[i])]
       \o << ActionStep("finish", "recovered") >>

RECURSIVE ExtractFinishSummary(_)
ExtractFinishSummary(actions) ==
  IF actions = <<>> THEN ""
  ELSE IF Head(actions).type = "finish" /\ Head(actions).arg # ""
       THEN Head(actions).arg
       ELSE ExtractFinishSummary(Tail(actions))

\* results that succeeded and whose stdout artifact holds text
\* mutant: a stdout artifact counts as evidence unless the file is empty
CollectToolEvidence_unstripped(results, files) ==
  { i \in 1..Len(results) :
      /\ results[i].status = "success"
      /\ results[i].stdout_artifact # "none"
      /\ files[i] # "empty" }

CollectToolEvidence(results, files) ==
  { i \in 1..Len(results) :
      /\ results[i].status = "success"
      /\ results[i].stdout_artifact # "none"
      /\ files[i] = "text" }

AnyFailed(results) == \E i \in 1..Len(results) : results[i].status = "failed"

UseNativeTools == config.structured_output_mode \in
                    {"native_with_json_fallback", "native_only"}

\* mutant: the prompt never carries the RUN_CONSTRAINTS block
BuildPrompt_unconstrained(native, blocked) ==
  [kind |-> "decision", use_native_tools |-> native,
   blocked_skill_name |-> ""]

\* blocked_skill_name # "" is the RUN_CONSTRAINTS block naming that skill as
\* blocked call_skill target; "" is a prompt without the block
BuildPrompt(native, blocked) ==
  [kind |-> "decision", use_native_tools |-> native,
   blocked_skill_name |-> blocked]

SynthesisPrompt ==
  [kind |-> "final_answer", use_native_tools |-> FALSE,
   blocked_skill_name |-> ""]

Invocation(site, tools) == [call_site |-> site, tools |-> tools]

NewInvocation(site, tools, force, ret) ==
  [call_site |-> site, tools |-> tools, force_tool_use |-> force,
   return_to |-> ret, attempt |-> 1, last_attempt |-> 0,
   response_data |-> NoResponse, llm_error |-> NoError, log |-> <<>>]

IdleInvocation == NewInvocation("", FALSE, FALSE, "")

\* mutant: only decision-loop records reach the sink
WriteTranscript_decisions_only(sink, record) ==
  IF config.llm_transcript_enabled /\ record.call_site = "decision_loop"
  THEN Append(sink, record) ELSE sink

WriteTranscript(sink, record) ==
  IF config.llm_transcript_enabled THEN Append(sink, record) ELSE sink

\* the finally block of run(): close the tool manager when one is connected
CloseAll(m) == IF m = "open" THEN "closed" ELSE m

\* bus.emit of one of the run-level events
RunStarted == [event_type |-> "run_started", reason |-> ""]
RunFailed(reason) == [event_type |-> "run_failed", reason |-> reason]
RunFinished == [event_type |-> "run_finished", reason |-> ""]

Emit(event) == events' = Append(events, event)

\* "return RunResult(status=..., message=...)" inside the try block; reason
\* repeats the reason of the run_failed event emitted just before
Return(status, reason, text) ==
  /\ pc' = "done"
  /\ run_result' = RunResult(status, reason)
  /\ message' = text
  /\ mcp_manager' = CloseAll(mcp_manager)

\* ------------------------------------- logging: JsonlSink, LlmTranscriptSink
\* most threads calling write on the sink, most write calls of one thread,
\* and the number of pieces in which a record reaches the file
MaxWriters == 2
MaxRecords == 2
MaxChunks == 2

Writers == 1..MaxWriters

\* a sink object: its lock (0: free, else the holder), the file, and for
\* each caller of write its position, its completed calls, the pieces of
\* its current record already in the file, and the calls that raised
Sink(lock, file, at, completed, flushed, raised) ==
  [lock |-> lock, file |-> file, at |-> at, completed |-> completed,
   flushed |-> flushed, raised |-> raised]

NewSink ==
  Sink(0, <<>>, [w \in Writers |-> "idle"], [w \in Writers |-> 0],
       [w \in Writers |-> 0], [w \in Writers |-> 0])

\* a piece of the record written by call number r of writer w
Chunk(w, r, c) == [writer |-> w, record |-> r, chunk |-> c]

\* no function call under study
NoCall == [fn |-> "none"]

\* what run() knows of its setup: number of skills loaded, number of
\* candidates left after the zero-candidate strategy (-1: not yet computed),
\* the outcome of the tool-server initialisation, the credentials check, and
\* whether the artifact dry_run_prompt.txt was written
SetupFacts(skills, candidates, mcp, credentials, artifact) ==
  [skills |-> skills, candidates |-> candidates, mcp |-> mcp,
   credentials |-> credentials, dry_run_prompt |-> artifact]

NoSetup == SetupFacts(-1, -1, "unknown", "unknown", FALSE)

\* the locals of run() once declared
Locals ==
  /\ events = << RunStarted >>
  /\ message = ""
  /\ turn_index = 0
  /\ stop_requested = FALSE
  /\ accumulated_results = <<>>
  /\ consecutive_self_handoff_turns = 0
  /\ blocked_self_handoff_skill = ""
  /\ prompt = BuildPrompt(FALSE, "")
  /\ inv = IdleInvocation
  /\ decision = NoDecision
  /\ next_action = 0
  /\ step_results = <<>>
  /\ stdout_files = <<>>
  /\ should_finish = FALSE
  /\ finish_summary = ""
  /\ final_summary = ""
  /\ transcript = <<>>
  /\ run_result = Running
  /\ provider_calls = [returned |-> 0, raised |-> 0]
  /\ executor_calls = 0
  /\ tool_calls = 0
  /\ turn_invocations = <<>>
  /\ decoded_types = <<>>
  /\ recovered = FALSE
  /\ signal_turn = -1
  /\ only_handoff_to = "any"
  /\ executions = <<>>

\* the locals of run() before the first turn
LoopStart ==
  /\ pc = "loop"
  /\ disclosed_snippets = << >>
  /\ dry_run = FALSE
  /\ setup = SetupFacts(1, 1, "not_configured", "present", FALSE)
  /\ mcp_tool_catalog = "empty"
  /\ Locals

Init ==
  /\ config \in [max_turns : 0..MaxTurns,
                 max_llm_retries : 0..MaxRetries,
                 structured_output_mode : OutputModes,
                 on_step_failure : FailurePolicies,
                 llm_transcript_enabled : BOOLEAN]
  /\ dry_run \in BOOLEAN
  /\ pc = "setup"
  /\ setup = NoSetup
  /\ disclosed_snippets = << >>
  /\ mcp_manager = "none"
  /\ mcp_tool_catalog = "empty"
  /\ Locals
  /\ sink_state = NewSink
  /\ args = NoCall
  /\ returned = NoCall

\* ------------------------------------------------ run(): before the loop
\* largest skill catalog, and largest prefilter_top_k, of a run
MaxSkills == 1

ZeroCandidateStrategies == {"fallback_all_skills", "fail_fast"}

\* len(lst[:top_k]) for a list of n items
Take(n, top_k) == IF n < top_k THEN n ELSE top_k

\* SkillRouter.prefilter: the skills scoring at least min_score, cut to top_k
prefilter(matching, top_k) == Take(matching, top_k)

\* the candidates after "if not candidates": every skill, cut to top_k
FallbackCandidates(skills, top_k) == Take(skills, top_k)

\* stage1 of the primary skill
PrimarySkillStage1 ==
  ("section:overview" :> [kind |-> "text", file |-> "overview"])

\* a return statement placed before the try/finally of the turn loop
SetupReturn(status, reason, text) ==
  /\ pc' = "done"
  /\ run_result' = RunResult(status, reason)
  /\ message' = text

\* "if not skills": run_failed no_skills_found
NoSkillsFound ==
  /\ pc = "setup"
  /\ setup' = [setup EXCEPT !.skills = 0]
  /\ Emit(RunFailed("no_skills_found"))
  /\ SetupReturn("failed", "no_skills_found", "No skills found")
  /\ UNCHANGED <<fnVars, sinkVars, discVars, cfgVars, histVars, sigVars, llmVars, execVars,
                 dry_run, mcp_tool_catalog, turn_index, accumulated_results,
                 consecutive_self_handoff_turns, blocked_self_handoff_skill>>

\* the catalog holds at least one skill
SkillCatalogLoaded ==
  /\ pc = "setup"
  /\ \E skills \in 1..MaxSkills : setup' = [setup EXCEPT !.skills = skills]
  /\ pc' = "prefilter"
  /\ UNCHANGED <<fnVars, sinkVars, evVars, discVars, cfgVars, histVars, sigVars, llmVars, execVars,
                 dry_run, mcp_tool_catalog, turn_index, accumulated_results,
                 consecutive_self_handoff_turns, blocked_self_handoff_skill,
                 run_result>>

\* "if not candidates" under fail_fast: run_failed prefilter_zero_candidates
PrefilterZeroCandidates ==
  /\ pc = "prefilter"
  /\ \E matching \in 0..setup.skills, top_k \in 0..MaxSkills,
        strategy \in ZeroCandidateStrategies :
       /\ prefilter(matching, top_k) = 0
       /\ strategy # "fallback_all_skills"
       /\ setup' = [setup EXCEPT !.candidates = 0]
  /\ Emit(RunFailed("prefilter_zero_candidates"))
  /\ SetupReturn("failed", "prefilter_zero_candidates", "No candidate skills matched")
  /\ UNCHANGED <<fnVars, sinkVars, discVars, cfgVars, histVars, sigVars, llmVars, execVars,
                 dry_run, mcp_tool_catalog, turn_index, accumulated_results,
                 consecutive_self_handoff_turns, blocked_self_handoff_skill>>

\* the candidate list the setup goes on with
CandidatesAfterStrategy(skills, matching, top_k, strategy) ==
  IF prefilter(matching, top_k) = 0 /\ strategy = "fallback_all_skills"
  THEN FallbackCandidates(skills, top_k)
  ELSE prefilter(matching, top_k)

\* candidates[0] of an empty list: the run ends with an IndexError
PrimarySkillIndexError ==
  /\ pc = "prefilter"
  /\ \E matching \in 0..setup.skills, top_k \in 0..MaxSkills :
       /\ prefilter(matching, top_k) = 0
       /\ CandidatesAfterStrategy(setup.skills, matching, top_k,
                                  "fallback_all_skills") = 0
       /\ setup' = [setup EXCEPT !.candidates = 0]
  /\ events' = events
  /\ SetupReturn("raised", "IndexError", "")
  /\ UNCHANGED <<fnVars, sinkVars, discVars, cfgVars, histVars, sigVars, llmVars, execVars,
                 dry_run, mcp_tool_catalog, turn_index, accumulated_results,
                 consecutive_self_handoff_turns, blocked_self_handoff_skill>>

\* skill_prefilter_completed, then stage1 of the primary skill
PrefilterCompleted ==
  /\ pc = "prefilter"
  /\ \E matching \in 0..setup.skills, top_k \in 0..MaxSkills,
        strategy \in ZeroCandidateStrategies :
       LET candidates ==
             CandidatesAfterStrategy(setup.skills, matching, top_k, strategy)
       IN /\ candidates > 0
          /\ setup' = [setup EXCEPT !.candidates = candidates]
  /\ disclosed_snippets' = PrimarySkillStage1 @@ disclosed_snippets
  /\ pc' = "mcp_init"
  /\ UNCHANGED <<fnVars, sinkVars, evVars, cfgVars, histVars, sigVars, llmVars, execVars,
                 dry_run, mcp_tool_catalog, turn_index, accumulated_results,
                 consecutive_self_handoff_turns, blocked_self_handoff_skill,
                 run_result>>

\* "if self.config.mcp.enabled and self.config.mcp.servers" is false
McpNotConfigured ==
  /\ pc = "mcp_init"
  /\ setup' = [setup EXCEPT !.mcp = "not_configured"]
  /\ pc' = "ready"
  /\ UNCHANGED <<fnVars, sinkVars, evVars, discVars, cfgVars, histVars, sigVars, llmVars, execVars,
                 dry_run, mcp_tool_catalog, turn_index, accumulated_results,
                 consecutive_self_handoff_turns, blocked_self_handoff_skill,
                 run_result>>

\* mcp_manager = McpManager(), about to call connect_all
McpManagerCreated ==
  /\ pc = "mcp_init"
  /\ mcp_manager' = "created"
  /\ pc' = "mcp_connect"
  /\ UNCHANGED <<fnVars, sinkVars, evVars, discVars, setupVars, cfgVars, histVars, sigVars, llmVars,
                 decision, next_action, step_results, stdout_files,
                 should_finish, finish_summary, final_summary, executor_calls,
                 tool_calls, decoded_types, recovered, turn_index,
                 accumulated_results, consecutive_self_handoff_turns,
                 blocked_self_handoff_skill, run_result>>

\* connect_all returned the discovered tools
McpConnectReturns ==
  /\ pc = "mcp_connect"
  /\ mcp_manager' = "open"
  /\ mcp_tool_catalog' = "tools"
  /\ setup' = [setup EXCEPT !.mcp = "connected"]
  /\ pc' = "ready"
  /\ UNCHANGED <<fnVars, sinkVars, evVars, discVars, cfgVars, histVars, sigVars, llmVars,
                 dry_run, decision, next_action, step_results, stdout_files,
                 should_finish, finish_summary, final_summary, executor_calls,
                 tool_calls, decoded_types, recovered, turn_index,
                 accumulated_results, consecutive_self_handoff_turns,
                 blocked_self_handoff_skill, run_result>>

\* mutant: a failed connection ends the run
McpConnectRaises_aborts ==
  /\ pc = "mcp_connect"
  /\ mcp_manager' = "none"
  /\ setup' = [setup EXCEPT !.mcp = "connection_failed"]
  /\ Emit(RunFailed("mcp_connection_failed"))
  /\ SetupReturn("failed", "mcp_connection_failed", "Tool server connection failed")
  /\ UNCHANGED <<fnVars, sinkVars, discVars, cfgVars, histVars, sigVars, llmVars,
                 dry_run, mcp_tool_catalog, decision, next_action,
                 step_results, stdout_files,
                 should_finish, finish_summary, final_summary, executor_calls,
                 tool_calls, decoded_types, recovered, turn_index,
                 accumulated_results, consecutive_self_handoff_turns,
                 blocked_self_handoff_skill>>

\* "except Exception": mcp_connection_failed, mcp_manager = None
McpConnectRaises ==
  /\ pc = "mcp_connect"
  /\ mcp_manager' = "none"
  /\ setup' = [setup EXCEPT !.mcp = "connection_failed"]
  /\ pc' = "ready"
  /\ UNCHANGED <<fnVars, sinkVars, evVars, discVars, cfgVars, histVars, sigVars, llmVars,
                 dry_run, mcp_tool_catalog, decision, next_action,
                 step_results, stdout_files,
                 should_finish, finish_summary, final_summary, executor_calls,
                 tool_calls, decoded_types, recovered, turn_index,
                 accumulated_results, consecutive_self_handoff_turns,
                 blocked_self_handoff_skill, run_result>>

\* "if dry_run": write dry_run_prompt.txt, run_finished, return success
DryRun ==
  /\ pc = "ready"
  /\ dry_run
  /\ setup' = [setup EXCEPT !.dry_run_prompt = TRUE]
  /\ Emit(RunFinished)
  /\ SetupReturn("success", "", "Dry run complete")
  /\ UNCHANGED <<fnVars, sinkVars, discVars, cfgVars, histVars, sigVars, llmVars, execVars,
                 dry_run, mcp_tool_catalog, turn_index, accumulated_results,
                 consecutive_self_handoff_turns, blocked_self_handoff_skill>>

Credentials == {"present", "absent"}

\* mutant: the credentials are never looked at
provider_has_credentials_unchecked(credentials) == TRUE

\* an API key or an auth token of the provider is set
provider_has_credentials(credentials) == credentials = "present"

\* "if not provider_has_credentials": run_failed missing_provider_api_key
MissingProviderApiKey ==
  /\ pc = "ready"
  /\ ~dry_run
  /\ \E credentials \in Credentials :
       /\ ~provider_has_credentials(credentials)
       /\ setup' = [setup EXCEPT !.credentials = credentials]
  /\ Emit(RunFailed("missing_provider_api_key"))
  /\ SetupReturn("failed", "missing_provider_api_key", "Missing provider API key")
  /\ UNCHANGED <<fnVars, sinkVars, discVars, cfgVars, histVars, sigVars, llmVars, execVars,
                 dry_run, mcp_tool_catalog, turn_index, accumulated_results,
                 consecutive_self_handoff_turns, blocked_self_handoff_skill>>

\* the router and the executor are built and run() enters the try block
EnterLoop ==
  /\ pc = "ready"
  /\ ~dry_run
  /\ \E credentials \in Credentials :
       /\ provider_has_credentials(credentials)
       /\ setup' = [setup EXCEPT !.credentials = credentials]
  /\ pc' = "loop"
  /\ UNCHANGED <<fnVars, sinkVars, evVars, discVars, cfgVars, histVars, sigVars, llmVars, execVars,
                 dry_run, mcp_tool_catalog, turn_index, accumulated_results,
                 consecutive_self_handoff_turns, blocked_self_handoff_skill,
                 run_result>>

\* positions of run() before install_signal_handlers
SetupPositions == {"setup", "prefilter", "mcp_init", "mcp_connect", "ready"}

\* ------------------------------------------------------- turn loop header
\* mutant: the range runs one turn too far
LoopExhausted_off_by_one == turn_index > config.max_turns

\* range(1, max_turns + 1) has no further turn
LoopExhausted == turn_index >= config.max_turns

\* mutant: the flag is never looked at
InterruptObserved_never == FALSE

\* mutant: the flag is not looked at before the first turn
InterruptObserved_late == stop_requested /\ turn_index >= 1

\* if signal_state.stop_requested
InterruptObserved == stop_requested

\* mutant: the exhausted loop returns without a run_failed event
MaxTurnsExceeded_silent ==
  /\ pc = "loop"
  /\ LoopExhausted
  /\ events' = events
  /\ Return("failed", "max_turns_exceeded", "Max turns exceeded")
  /\ UNCHANGED <<fnVars, sinkVars, discVars, setupVars, cfgVars, histVars, llmVars, sigVars, turn_index, accumulated_results,
                 consecutive_self_handoff_turns, blocked_self_handoff_skill,
                 decision, next_action, step_results, stdout_files,
                 should_finish,
                 finish_summary, final_summary, executor_calls, tool_calls,
                 decoded_types, recovered>>

\* for turn_index in range(1, max_turns + 1): exhausted
MaxTurnsExceeded ==
  /\ pc = "loop"
  /\ LoopExhausted
  /\ Emit(RunFailed("max_turns_exceeded"))
  /\ Return("failed", "max_turns_exceeded", "Max turns exceeded")
  /\ UNCHANGED <<fnVars, sinkVars, discVars, setupVars, cfgVars, histVars, llmVars, sigVars, turn_index, accumulated_results,
                 consecutive_self_handoff_turns, blocked_self_handoff_skill,
                 decision, next_action, step_results, stdout_files,
                 should_finish,
                 finish_summary, final_summary, executor_calls, tool_calls,
                 decoded_types, recovered>>

\* if signal_state.stop_requested: ... return interrupted
Interrupted ==
  /\ pc = "loop"
  /\ ~LoopExhausted
  /\ InterruptObserved
  /\ turn_index' = turn_index + 1
  /\ Emit(RunFailed("interrupted"))
  /\ Return("failed", "interrupted", "Interrupted by signal")
  /\ UNCHANGED <<fnVars, sinkVars, discVars, setupVars, cfgVars, histVars, llmVars, sigVars, accumulated_results,
                 consecutive_self_handoff_turns, blocked_self_handoff_skill,
                 decision, next_action, step_results, stdout_files,
                 should_finish,
                 finish_summary, final_summary, executor_calls, tool_calls,
                 decoded_types, recovered>>

\* build_prompt and the start of the decision invocation
StartTurn ==
  /\ pc = "loop"
  /\ ~LoopExhausted
  /\ ~InterruptObserved
  /\ turn_index' = turn_index + 1
  /\ prompt' = BuildPrompt(UseNativeTools, blocked_self_handoff_skill)
  /\ inv' = NewInvocation("decision_loop", UseNativeTools,
                          config.structured_output_mode = "native_only",
                          "after_invoke")
  /\ turn_invocations' = << Invocation("decision_loop", UseNativeTools) >>
  /\ pc' = "llm"
  /\ UNCHANGED <<fnVars, sinkVars, evVars, discVars, setupVars, cfgVars, histVars, sigVars, execVars, accumulated_results,
                 consecutive_self_handoff_turns, blocked_self_handoff_skill,
                 run_result, transcript, provider_calls>>


\* ------------------------------------------- _invoke_llm_with_logging
\* what a provider may answer at a call site
Responses(site) ==
  IF site = "decision_loop"
  THEN { Response("undecodable", NoDecision) }
         \cup { Response("decision", d) : d \in Decisions }
  ELSE { Response("answer", NoDecision), Response("no_answer", NoDecision) }

\* for attempt in range(1, max_llm_retries + 2)
AttemptRange == 1..(config.max_llm_retries + 1)

\* one pass of the attempt loop whose provider call returns a response
LlmAttemptReturns ==
  /\ pc = "llm"
  /\ inv.attempt \in AttemptRange
  /\ \E r \in Responses(inv.call_site) :
       inv' = [inv EXCEPT !.last_attempt = inv.attempt,
                          !.response_data = r,
                          !.llm_error = NoError,
                          !.log = Append(inv.log, "returned")]
  /\ provider_calls' = [provider_calls EXCEPT !.returned = @ + 1]
  /\ pc' = inv.return_to
  /\ UNCHANGED <<fnVars, sinkVars, evVars, discVars, setupVars, cfgVars, histVars, sigVars, execVars, turn_index, accumulated_results,
                 consecutive_self_handoff_turns, blocked_self_handoff_skill,
                 run_result, prompt, transcript, turn_invocations>>

\* mutant: every error is retried while attempts remain
RetryScheduled_any_error(retryable, attempt) ==
  attempt <= config.max_llm_retries

\* retryable and attempt <= max_llm_retries
RetryScheduled(retryable, attempt) ==
  retryable /\ attempt <= config.max_llm_retries

\* one pass of the attempt loop whose provider call raises
LlmAttemptRaises ==
  /\ pc = "llm"
  /\ inv.attempt \in AttemptRange
  /\ provider_calls.raised < MaxLlmErrors
  /\ \E retryable \in BOOLEAN :
       /\ transcript' = WriteTranscript(transcript,
            LlmTranscriptRecord(turn_index, inv.attempt, inv.call_site,
                                "request_failed",
                                IF retryable THEN "True" ELSE "False"))
       /\ inv' = [inv EXCEPT
            !.last_attempt = inv.attempt,
            !.llm_error = [attempt |-> inv.attempt, retryable |-> retryable],
            !.log = Append(inv.log, IF retryable THEN "retryable" ELSE "fatal"),
            !.attempt = IF RetryScheduled(retryable, inv.attempt)
                        THEN inv.attempt + 1 ELSE inv.attempt]
       /\ pc' = IF RetryScheduled(retryable, inv.attempt)
                THEN "llm" ELSE inv.return_to
  /\ provider_calls' = [provider_calls EXCEPT !.raised = @ + 1]
  /\ UNCHANGED <<fnVars, sinkVars, evVars, discVars, setupVars, cfgVars, histVars, sigVars, execVars, turn_index, accumulated_results,
                 consecutive_self_handoff_turns, blocked_self_handoff_skill,
                 run_result, prompt, turn_invocations>>

\* ------------------------------------------ run(): after the invocation
\* mutant: the fallback does not look at the output mode
FallbackCondition_any_mode ==
  /\ inv.response_data.kind = "none"
  /\ UseNativeTools

FallbackCondition ==
  /\ inv.response_data.kind = "none"
  /\ UseNativeTools
  /\ config.structured_output_mode = "native_with_json_fallback"

\* request-level fallback: one more invocation, without tools
NativeFallback ==
  /\ pc = "after_invoke"
  /\ FallbackCondition
  /\ prompt' = BuildPrompt(FALSE, blocked_self_handoff_skill)
  /\ inv' = NewInvocation("decision_loop", FALSE, FALSE, "after_fallback")
  /\ turn_invocations' = Append(turn_invocations,
                                Invocation("decision_loop", FALSE))
  /\ pc' = "llm"
  /\ UNCHANGED <<fnVars, sinkVars, evVars, discVars, setupVars, cfgVars, histVars, sigVars, execVars, turn_index, accumulated_results,
                 consecutive_self_handoff_turns, blocked_self_handoff_skill,
                 run_result, transcript, provider_calls>>

\* control is at "llm_response_data = invocation_result.response_data"
AtResponseCheck ==
  \/ pc = "after_fallback"
  \/ pc = "after_invoke" /\ ~FallbackCondition

LlmRequestFailed ==
  /\ AtResponseCheck
  /\ inv.response_data.kind = "none"
  /\ Emit(RunFailed("llm_request_failed"))
  /\ Return("failed", "llm_request_failed", "LLM request failed")
  /\ UNCHANGED <<fnVars, sinkVars, discVars, setupVars, cfgVars, histVars, llmVars, sigVars, turn_index, accumulated_results,
                 consecutive_self_handoff_turns, blocked_self_handoff_skill,
                 decision, next_action, step_results, stdout_files,
                 should_finish,
                 finish_summary, final_summary, executor_calls, tool_calls,
                 decoded_types, recovered>>

\* mutant: the decode failure is returned without a transcript record
DecodeFailed_unrecorded ==
  /\ AtResponseCheck
  /\ inv.response_data.kind = "undecodable"
  /\ Emit(RunFailed("decode_failed"))
  /\ Return("failed", "decode_failed", "Failed to decode model response")
  /\ only_handoff_to' = "no"
  /\ executions' = executions
  /\ UNCHANGED <<fnVars, sinkVars, discVars, setupVars, cfgVars, sigVars, turn_index, accumulated_results,
                 consecutive_self_handoff_turns, blocked_self_handoff_skill,
                 prompt, inv, provider_calls, turn_invocations, transcript,
                 decision, next_action, step_results, stdout_files,
                 should_finish,
                 finish_summary, final_summary, executor_calls, tool_calls,
                 decoded_types, recovered>>

\* decode_model_decision raised DecodeError
DecodeFailed ==
  /\ AtResponseCheck
  /\ inv.response_data.kind = "undecodable"
  /\ transcript' = WriteTranscript(transcript,
       LlmTranscriptRecord(turn_index, inv.last_attempt, "decision_loop",
                           "decode_failed", "None"))
  /\ Emit(RunFailed("decode_failed"))
  /\ Return("failed", "decode_failed", "Failed to decode model response")
  /\ only_handoff_to' = "no"
  /\ executions' = executions
  /\ UNCHANGED <<fnVars, sinkVars, discVars, setupVars, cfgVars, sigVars, turn_index, accumulated_results,
                 consecutive_self_handoff_turns, blocked_self_handoff_skill,
                 prompt, inv, provider_calls, turn_invocations,
                 decision, next_action, step_results, stdout_files,
                 should_finish,
                 finish_summary, final_summary, executor_calls, tool_calls,
                 decoded_types, recovered>>

\* mutant: the loop breaker only stops a handoff to the blocked skill
ExecutedDecision_blocked_only(decoded) ==
  LET nonempty == IF decoded.planned_actions = <<>>
                  THEN make_finish_decision ELSE decoded
      decoded_self_handoff ==
        IsSelfHandoffOnly(nonempty.selected_skill, nonempty.planned_actions)
  IN IF decoded_self_handoff
          /\ nonempty.selected_skill = blocked_self_handoff_skill
     THEN [nonempty EXCEPT
             !.planned_actions =
                BuildSelfHandoffRecoveryActions(nonempty.selected_skill),
             !.required_disclosure_paths = {}]
     ELSE nonempty

\* mutant: no loop breaker, the decoded self-handoff is executed
ExecutedDecision_no_breaker(decoded) ==
  IF decoded.planned_actions = <<>> THEN make_finish_decision ELSE decoded

\* mutant: the loop breaker waits for two earlier self-handoff turns
ExecutedDecision_late_breaker(decoded) ==
  LET nonempty == IF decoded.planned_actions = <<>>
                  THEN make_finish_decision ELSE decoded
      decoded_self_handoff ==
        IsSelfHandoffOnly(nonempty.selected_skill, nonempty.planned_actions)
  IN IF decoded_self_handoff /\ consecutive_self_handoff_turns >= 2
     THEN [nonempty EXCEPT
             !.planned_actions =
                BuildSelfHandoffRecoveryActions(nonempty.selected_skill),
             !.required_disclosure_paths = {}]
     ELSE nonempty

\* the decision after the empty-plan substitution and the loop breaker
ExecutedDecision(decoded) ==
  LET nonempty == IF decoded.planned_actions = <<>>
                  THEN make_finish_decision ELSE decoded
      decoded_self_handoff ==
        IsSelfHandoffOnly(nonempty.selected_skill, nonempty.planned_actions)
  IN IF decoded_self_handoff /\ consecutive_self_handoff_turns >= 1
     THEN [nonempty EXCEPT
             !.planned_actions =
                BuildSelfHandoffRecoveryActions(nonempty.selected_skill),
             !.required_disclosure_paths = {}]
     ELSE nonempty

\* history: the one skill every decoded decision so far purely handed off to
HandoffHistory(decoded) ==
  IF /\ IsSelfHandoffOnly(decoded.selected_skill, decoded.planned_actions)
     /\ only_handoff_to \in {"any", decoded.selected_skill}
  THEN decoded.selected_skill ELSE "no"

\* decode succeeded: loop breaker, success record, start of execution
DecisionDecoded ==
  /\ AtResponseCheck
  /\ inv.response_data.kind = "decision"
  /\ LET decoded == DecodeModelDecision(inv.response_data.decision)
         executed == ExecutedDecision(decoded)
     IN /\ decision' = executed
        /\ decoded_types' = [i \in 1..Len(decoded.planned_actions) |->
                               decoded.planned_actions[i].type]
        /\ recovered' = (executed # decoded)
        /\ only_handoff_to' = HandoffHistory(decoded)
        /\ executions' = executions
        /\ finish_summary' = ExtractFinishSummary(executed.planned_actions)
  /\ transcript' = WriteTranscript(transcript,
       LlmTranscriptRecord(turn_index, inv.last_attempt, "decision_loop",
                           "success", "None"))
  /\ next_action' = 1
  /\ step_results' = <<>>
  /\ stdout_files' = <<>>
  /\ should_finish' = FALSE
  /\ pc' = "execute"
  /\ UNCHANGED <<fnVars, sinkVars, evVars, discVars, setupVars, cfgVars, sigVars, turn_index, accumulated_results,
                 consecutive_self_handoff_turns, blocked_self_handoff_skill,
                 run_result, prompt, inv, provider_calls, turn_invocations,
                 final_summary, executor_calls, tool_calls, mcp_manager>>


\* ------------------------------------------------------ _execute_actions
CurrentAction == decision.planned_actions[next_action]

Executing(type) ==
  /\ pc = "execute"
  /\ next_action \in 1..Len(decision.planned_actions)
  /\ CurrentAction.type = type

\* mutant: a failed step returns (step_results, should_finish)
Record_keeps_finish(result, finish, file) ==
  /\ step_results' = Append(step_results, result)
  /\ stdout_files' = Append(stdout_files, file)
  /\ should_finish' = (should_finish \/ finish)
  /\ IF result.status = "failed"
     THEN /\ pc' = "turn_end"
          /\ next_action' = next_action
     ELSE /\ next_action' = next_action + 1
          /\ pc' = IF next_action = Len(decision.planned_actions)
                   THEN "turn_end" ELSE "execute"

\* mutant: a failed step does not end the loop over the actions
Record_no_short_circuit(result, finish, file) ==
  /\ step_results' = Append(step_results, result)
  /\ stdout_files' = Append(stdout_files, file)
  /\ should_finish' = IF result.status = "failed" THEN FALSE
                      ELSE (should_finish \/ finish)
  /\ next_action' = next_action + 1
  /\ pc' = IF next_action = Len(decision.planned_actions)
           THEN "turn_end" ELSE "execute"

\* append the step's result; a failed step returns (step_results, False),
\* the end of the list returns (step_results, should_finish)
Record(result, finish, file) ==
  /\ step_results' = Append(step_results, result)
  /\ stdout_files' = Append(stdout_files, file)
  /\ IF result.status = "failed"
     THEN /\ should_finish' = FALSE
          /\ pc' = "turn_end"
          /\ next_action' = next_action
     ELSE /\ should_finish' = (should_finish \/ finish)
          /\ next_action' = next_action + 1
          /\ pc' = IF next_action = Len(decision.planned_actions)
                   THEN "turn_end" ELSE "execute"

ExecFinish ==
  /\ Executing("finish")
  /\ Record(StepExecutionResult(next_action, 0, "success", 0, "none"), TRUE,
            "none")
  /\ UNCHANGED <<fnVars, sinkVars, evVars, discVars, setupVars, cfgVars, histVars, llmVars, sigVars, turn_index, accumulated_results,
                 consecutive_self_handoff_turns, blocked_self_handoff_skill,
                 run_result, decision, finish_summary, final_summary,
                 executor_calls, tool_calls, mcp_manager, decoded_types,
                 recovered>>

ExitCodes == {0, 1}
\* what a step's stdout artifact holds: nothing, white space only, or text
StdoutTexts == {"empty", "blank", "text"}

\* command blank after strip(): no executor call
ExecRunCommandMissing ==
  /\ Executing("run_command")
  /\ CurrentAction.arg \in {"", " "}
  /\ Record(StepExecutionResult(next_action, 1, "failed", 0, "none"), FALSE,
            "none")
  /\ UNCHANGED <<fnVars, sinkVars, evVars, discVars, setupVars, cfgVars, histVars, llmVars, sigVars, turn_index, accumulated_results,
                 consecutive_self_handoff_turns, blocked_self_handoff_skill,
                 run_result, decision, finish_summary, final_summary,
                 executor_calls, tool_calls, mcp_manager, decoded_types,
                 recovered>>

\* mutant: the command is run a second time whatever the first run returned
RetryOnce_unconditional(exit_code) ==
  config.on_step_failure = "retry_once_then_fallback_then_abort"

RetryOnce(exit_code) ==
  exit_code # 0 /\ config.on_step_failure = "retry_once_then_fallback_then_abort"

\* executor.run, run again once when the policy says so; executions lists
\* the exit codes the executor returned for this step
ExecRunCommand ==
  /\ Executing("run_command")
  /\ CurrentAction.arg \notin {"", " "}
  /\ \E first \in ExitCodes, second \in ExitCodes, out \in StdoutTexts :
       LET retry_count == IF RetryOnce(first) THEN 1 ELSE 0
           exit_code == IF RetryOnce(first) THEN second ELSE first
           status == IF exit_code = 0 THEN "success" ELSE "failed"
       IN /\ executor_calls' = executor_calls + 1 + retry_count
          /\ executions' = IF RetryOnce(first) THEN <<first, second>>
                           ELSE <<first>>
          /\ Record(StepExecutionResult(next_action, exit_code, status,
                                        retry_count, "path"), FALSE, out)
  /\ UNCHANGED <<fnVars, sinkVars, evVars, discVars, setupVars, cfgVars, only_handoff_to, llmVars, sigVars, turn_index, accumulated_results,
                 consecutive_self_handoff_turns, blocked_self_handoff_skill,
                 run_result, decision, finish_summary, final_summary,
                 tool_calls, mcp_manager, decoded_types, recovered>>

ExecCallSkill ==
  /\ Executing("call_skill")
  /\ LET target == CurrentAction.arg
     IN Record(StepExecutionResult(next_action,
                                   IF target # "" THEN 0 ELSE 1,
                                   IF target # "" THEN "success" ELSE "failed",
                                   0, "none"), FALSE, "none")
  /\ UNCHANGED <<fnVars, sinkVars, evVars, discVars, setupVars, cfgVars, histVars, llmVars, sigVars, turn_index, accumulated_results,
                 consecutive_self_handoff_turns, blocked_self_handoff_skill,
                 run_result, decision, finish_summary, final_summary,
                 executor_calls, tool_calls, mcp_manager, decoded_types,
                 recovered>>

\* missing tool_name or no tool manager: no tool call
ExecMcpCallUnavailable ==
  /\ Executing("mcp_call")
  /\ CurrentAction.arg = "" \/ mcp_manager = "none"
  /\ Record(StepExecutionResult(next_action, 1, "failed", 0, "none"), FALSE,
            "none")
  /\ UNCHANGED <<fnVars, sinkVars, evVars, discVars, setupVars, cfgVars, histVars, llmVars, sigVars, turn_index, accumulated_results,
                 consecutive_self_handoff_turns, blocked_self_handoff_skill,
                 run_result, decision, finish_summary, final_summary,
                 executor_calls, tool_calls, mcp_manager, decoded_types,
                 recovered>>

McpOutcomes == {"raised", "is_error", "ok"}

ExecMcpCall ==
  /\ Executing("mcp_call")
  /\ ~(CurrentAction.arg = "" \/ mcp_manager = "none")
  /\ tool_calls' = tool_calls + 1
  /\ \E outcome \in McpOutcomes, out \in StdoutTexts :
       Record(CASE outcome = "raised" ->
                     StepExecutionResult(next_action, 1, "failed", 0, "none")
                [] outcome = "is_error" ->
                     StepExecutionResult(next_action, 1, "failed", 0, "path")
                [] OTHER ->
                     StepExecutionResult(next_action, 0, "success", 0, "path"),
              FALSE, IF outcome = "raised" THEN "none" ELSE out)
  /\ UNCHANGED <<fnVars, sinkVars, evVars, discVars, setupVars, cfgVars, histVars, llmVars, sigVars, turn_index, accumulated_results,
                 consecutive_self_handoff_turns, blocked_self_handoff_skill,
                 run_result, decision, finish_summary, final_summary,
                 executor_calls, mcp_manager, decoded_types, recovered>>

\* mutant: an ask_user step ends the run like a finish does
ExecAskUser_finishes ==
  /\ Executing("ask_user")
  /\ Record(StepExecutionResult(next_action, 0, "skipped", 0, "none"), TRUE,
            "none")
  /\ UNCHANGED <<fnVars, sinkVars, evVars, discVars, setupVars, cfgVars, histVars, llmVars, sigVars, turn_index, accumulated_results,
                 consecutive_self_handoff_turns, blocked_self_handoff_skill,
                 run_result, decision, finish_summary, final_summary,
                 executor_calls, tool_calls, mcp_manager, decoded_types,
                 recovered>>

\* ask_user is not supported in non-interactive mode
ExecAskUser ==
  /\ Executing("ask_user")
  /\ Record(StepExecutionResult(next_action, 0, "skipped", 0, "none"), FALSE,
            "none")
  /\ UNCHANGED <<fnVars, sinkVars, evVars, discVars, setupVars, cfgVars, histVars, llmVars, sigVars, turn_index, accumulated_results,
                 consecutive_self_handoff_turns, blocked_self_handoff_skill,
                 run_result, decision, finish_summary, final_summary,
                 executor_calls, tool_calls, mcp_manager, decoded_types,
                 recovered>>


\* --------------------------------------- run(): after _execute_actions
\* mutant: a turn that is no self-handoff leaves the counter as it was
HandoffCountAfter_sticky ==
  IF IsSelfHandoffOnly(decision.selected_skill, decision.planned_actions)
  THEN consecutive_self_handoff_turns + 1 ELSE consecutive_self_handoff_turns

HandoffCountAfter ==
  IF IsSelfHandoffOnly(decision.selected_skill, decision.planned_actions)
  THEN consecutive_self_handoff_turns + 1 ELSE 0

BlockedSkillAfter ==
  IF IsSelfHandoffOnly(decision.selected_skill, decision.planned_actions)
  THEN decision.selected_skill ELSE ""

\* the bookkeeping every turn does once its actions have been executed
TurnBookkeeping ==
  /\ accumulated_results' = accumulated_results \o step_results
  /\ consecutive_self_handoff_turns' = HandoffCountAfter
  /\ blocked_self_handoff_skill' = BlockedSkillAfter

\* defensive exit: two executed self-handoffs in a row
SelfHandoffLoop == HandoffCountAfter >= 2

\* the turn fails the run (self_handoff_loop or step_execution_failed)
TurnEndFailed ==
  /\ pc = "turn_end"
  /\ SelfHandoffLoop \/ (~should_finish /\ AnyFailed(step_results))
  /\ TurnBookkeeping
  /\ IF SelfHandoffLoop
     THEN /\ Emit(RunFailed("self_handoff_loop"))
          /\ Return("failed", "self_handoff_loop",
                    "Detected repeated self-handoff loop")
     ELSE /\ Emit(RunFailed("step_execution_failed"))
          /\ Return("failed", "step_execution_failed",
                    "Action execution failed")
  /\ UNCHANGED <<fnVars, sinkVars, discVars, setupVars, cfgVars, histVars, llmVars, sigVars, turn_index, decision, next_action,
                 step_results, stdout_files, should_finish, finish_summary,
                 final_summary,
                 executor_calls, tool_calls, decoded_types, recovered>>

\* should_finish with no tool evidence: the finish message is the summary
TurnEndFinish ==
  /\ pc = "turn_end"
  /\ ~SelfHandoffLoop
  /\ should_finish
  /\ CollectToolEvidence(step_results, stdout_files) = {}
  /\ TurnBookkeeping
  /\ final_summary' = finish_summary
  /\ Emit(RunFinished)
  /\ Return("success", "", "Run completed")
  /\ UNCHANGED <<fnVars, sinkVars, discVars, setupVars, cfgVars, histVars, llmVars, sigVars, turn_index, decision, next_action,
                 step_results, stdout_files, should_finish, finish_summary,
                 executor_calls, tool_calls, decoded_types, recovered>>

\* should_finish with tool evidence: start the synthesis invocation
TurnEndSynthesize ==
  /\ pc = "turn_end"
  /\ ~SelfHandoffLoop
  /\ should_finish
  /\ CollectToolEvidence(step_results, stdout_files) # {}
  /\ TurnBookkeeping
  /\ final_summary' = finish_summary
  /\ inv' = NewInvocation("final_answer_synthesis", FALSE, FALSE,
                          "after_synthesis")
  /\ turn_invocations' = Append(turn_invocations,
                                Invocation("final_answer_synthesis", FALSE))
  /\ prompt' = SynthesisPrompt
  /\ pc' = "llm"
  /\ UNCHANGED <<fnVars, sinkVars, evVars, discVars, setupVars, cfgVars, histVars, sigVars, turn_index, run_result, transcript,
                 provider_calls, decision, next_action, step_results,
                 stdout_files, should_finish, finish_summary, executor_calls,
                 tool_calls,
                 mcp_manager, decoded_types, recovered>>

\* mutant: a synthesis invocation without a response fails the run
SynthesisReturn_fatal ==
  /\ pc = "after_synthesis"
  /\ LET kind == inv.response_data.kind
     IN /\ transcript' =
             IF kind = "none" THEN transcript
             ELSE WriteTranscript(transcript,
                    LlmTranscriptRecord(turn_index, inv.last_attempt,
                      "final_answer_synthesis",
                      IF kind = "answer" THEN "success" ELSE "decode_failed",
                      "None"))
        /\ final_summary' = IF kind = "answer" THEN "answer" ELSE finish_summary
        /\ IF kind = "none"
           THEN /\ Emit(RunFailed("llm_request_failed"))
                /\ Return("failed", "llm_request_failed", "LLM request failed")
           ELSE /\ Emit(RunFinished)
                /\ Return("success", "", "Run completed")
  /\ UNCHANGED <<fnVars, sinkVars, discVars, setupVars, cfgVars, histVars, sigVars, turn_index, accumulated_results,
                 consecutive_self_handoff_turns, blocked_self_handoff_skill,
                 prompt, inv, provider_calls, turn_invocations,
                 decision, next_action, step_results, stdout_files,
                 should_finish,
                 finish_summary, executor_calls, tool_calls,
                 decoded_types, recovered>>

\* _synthesize_final_answer after its invocation, then run_finished
SynthesisReturn ==
  /\ pc = "after_synthesis"
  /\ LET kind == inv.response_data.kind
     IN /\ transcript' =
             IF kind = "none" THEN transcript
             ELSE WriteTranscript(transcript,
                    LlmTranscriptRecord(turn_index, inv.last_attempt,
                      "final_answer_synthesis",
                      IF kind = "answer" THEN "success" ELSE "decode_failed",
                      "None"))
        /\ final_summary' = IF kind = "answer" THEN "answer" ELSE finish_summary
  /\ Emit(RunFinished)
  /\ Return("success", "", "Run completed")
  /\ UNCHANGED <<fnVars, sinkVars, discVars, setupVars, cfgVars, histVars, sigVars, turn_index, accumulated_results,
                 consecutive_self_handoff_turns, blocked_self_handoff_skill,
                 prompt, inv, provider_calls, turn_invocations,
                 decision, next_action, step_results, stdout_files,
                 should_finish,
                 finish_summary, executor_calls, tool_calls,
                 decoded_types, recovered>>

\* neither finished nor failed: back to the loop header
TurnEndContinue ==
  /\ pc = "turn_end"
  /\ ~SelfHandoffLoop
  /\ ~should_finish
  /\ ~AnyFailed(step_results)
  /\ TurnBookkeeping
  /\ pc' = "loop"
  /\ decision' = NoDecision
  /\ next_action' = 0
  /\ step_results' = <<>>
  /\ stdout_files' = <<>>
  /\ finish_summary' = ""
  /\ decoded_types' = <<>>
  /\ recovered' = FALSE
  /\ inv' = IdleInvocation
  /\ turn_invocations' = <<>>
  /\ UNCHANGED <<fnVars, sinkVars, evVars, discVars, setupVars, cfgVars, histVars, sigVars, turn_index, run_result, prompt, transcript,
                 provider_calls, should_finish, final_summary,
                 executor_calls, tool_calls, mcp_manager>>

\* ----------------------------------------------------- signals.py _handler
\* SIGINT/SIGTERM delivered while the handlers are installed
SignalReceived ==
  /\ pc \notin SetupPositions \cup {"done"}
  /\ ~stop_requested
  /\ stop_requested' = TRUE
  /\ signal_turn' = turn_index
  /\ UNCHANGED <<fnVars, sinkVars, evVars, discVars, setupVars, cfgVars, histVars, loopVars, llmVars, execVars>>

Next ==
  \/ NoSkillsFound
  \/ SkillCatalogLoaded
  \/ PrefilterZeroCandidates
  \/ PrimarySkillIndexError
  \/ PrefilterCompleted
  \/ McpNotConfigured
  \/ McpManagerCreated
  \/ McpConnectReturns
  \/ McpConnectRaises
  \/ DryRun
  \/ MissingProviderApiKey
  \/ EnterLoop
  \/ MaxTurnsExceeded
  \/ Interrupted
  \/ StartTurn
  \/ LlmAttemptReturns
  \/ LlmAttemptRaises
  \/ NativeFallback
  \/ LlmRequestFailed
  \/ DecodeFailed
  \/ DecisionDecoded
  \/ ExecFinish
  \/ ExecRunCommandMissing
  \/ ExecRunCommand
  \/ ExecCallSkill
  \/ ExecMcpCallUnavailable
  \/ ExecMcpCall
  \/ ExecAskUser
  \/ TurnEndFailed
  \/ TurnEndFinish
  \/ TurnEndSynthesize
  \/ SynthesisReturn
  \/ TurnEndContinue
  \/ SignalReceived

Spec == Init /\ [][Next]_vars

TypeOK ==
  /\ pc \in SetupPositions \cup
            {"loop", "llm", "after_invoke", "after_fallback", "execute",
             "turn_end", "after_synthesis", "done"}
  /\ mcp_manager \in {"none", "created", "open", "closed"}
  /\ mcp_tool_catalog \in {"empty", "tools"}
  /\ turn_index \in 0..MaxTurns
  /\ consecutive_self_handoff_turns \in 0..2


\* ========================================================== properties
Calls == <<provider_calls, executor_calls, tool_calls>>
Done == pc = "done"
Failed(reason) == run_result = RunResult("failed", reason)
Succeeded == run_result = RunResult("success", "")

\* C1: the loop starts at most max_turns turns; when max_turns turns have
\* completed without a finish and without a failure the run returns failed
\* with reason max_turns_exceeded, and once the run has returned no provider
\* call, command or tool call is made.
C1_TurnBudget ==
  [][ /\ turn_index' <= config.max_turns
      /\ (pc = "loop" /\ turn_index >= config.max_turns /\ pc' # pc)
           => (pc' = "done" /\ Failed("max_turns_exceeded")' /\ Calls' = Calls)
      /\ Failed("max_turns_exceeded")'
           => (pc = "loop" /\ turn_index' = config.max_turns)
      /\ run_result # Running => Calls' = Calls ]_vars

C1_Witness ==
  /\ Done
  /\ Failed("max_turns_exceeded")
  /\ config.max_turns >= 2
  /\ turn_index = config.max_turns
  /\ provider_calls.returned >= 2

\* C3: a turn in which a step failed ends the run as failed with reason
\* step_execution_failed, in that same turn; a run that returns success has
\* no failed result among its recorded results, also when the failing step
\* follows a finish action.
C3_FailedStepFailsRun ==
  /\ [](Succeeded => ~AnyFailed(accumulated_results))
  /\ [](AnyFailed(step_results) => (pc \in {"turn_end", "done"} /\ ~should_finish))
  /\ [][ (pc = "turn_end" /\ AnyFailed(step_results) /\ pc' # pc)
           => /\ pc' = "done"
              /\ Failed("step_execution_failed")'
              /\ turn_index' = turn_index
              /\ Calls' = Calls ]_vars

C3_Witness ==
  /\ Done
  /\ Failed("step_execution_failed")
  /\ Len(step_results) = 2
  /\ decision.planned_actions[1].type = "finish"
  /\ step_results[1].status = "success"
  /\ step_results[2].status = "failed"

\* C4: the actions of a decision are executed one at a time in list order,
\* and after the first failed step no later action of that decision is
\* executed: no executor or tool call, no further step result.
C4_OrderedShortCircuit ==
  /\ [](/\ Len(step_results) <= Len(decision.planned_actions)
        /\ \A i \in 1..Len(step_results) :
             /\ step_results[i].step_id = i
             /\ (i < Len(step_results) => step_results[i].status # "failed"))
  /\ [][ /\ (step_results' # step_results /\ step_results' # <<>>)
             => (/\ ~AnyFailed(step_results)
                 /\ Len(step_results') = Len(step_results) + 1
                 /\ SubSeq(step_results', 1, Len(step_results)) = step_results)
         /\ (AnyFailed(step_results) /\ pc # "done")
             => (/\ executor_calls' = executor_calls
                 /\ tool_calls' = tool_calls
                 /\ (pc' # "loop" => step_results' = step_results)) ]_vars

C4_Witness ==
  /\ pc = "turn_end"
  /\ Len(decision.planned_actions) = 2
  /\ Len(step_results) = 1
  /\ step_results[1].status = "failed"
  /\ executor_calls >= 1


\* C2 as stated: when every decoded decision of a run is a pure self-handoff
\* to one skill, a turn numbered at most 2 executes the recovery decision
\* and the run does not end with max_turns_exceeded.
HasNonCallSkill(actions) ==
  \E i \in 1..Len(actions) : actions[i].type # "call_skill"

AlwaysSelfHandoff ==
  /\ only_handoff_to \in Skills
  /\ ~Failed("llm_request_failed")
  /\ ~Failed("interrupted")

C2_AsStated ==
  (Done /\ AlwaysSelfHandoff)
    => /\ recovered
       /\ turn_index <= 2
       /\ HasNonCallSkill(decision.planned_actions)
       /\ ~Failed("max_turns_exceeded")

\* C2 amended: with max_turns >= 2, when every decoded decision of a run is
\* a pure self-handoff to one skill, turn 2 executes the recovery decision
\* (at least one action that is not call_skill) and the run ends in turn 2,
\* never with max_turns_exceeded or self_handoff_loop.
C2_RecoveryByTurnTwo ==
  /\ (only_handoff_to \in Skills /\ pc \in {"execute", "turn_end"}
        /\ turn_index >= 2)
       => /\ turn_index = 2
          /\ recovered
          /\ HasNonCallSkill(decision.planned_actions)
  /\ (Done /\ AlwaysSelfHandoff /\ config.max_turns >= 2)
       => /\ recovered
          /\ turn_index = 2
          /\ HasNonCallSkill(decision.planned_actions)
          /\ Succeeded \/ Failed("step_execution_failed")

C2_Witness ==
  /\ Done
  /\ only_handoff_to = "Y"
  /\ recovered
  /\ turn_index = 2
  /\ Succeeded
  /\ executor_calls >= 1

\* C5 as stated: a run that returns decode_failed has written exactly one
\* transcript record with status decode_failed.
DecodeFailedRecords ==
  { i \in 1..Len(transcript) : transcript[i].status = "decode_failed" }

InvocationEnded == pc \in {"after_invoke", "after_fallback", "after_synthesis"}

C6_RetryDiscipline ==
  LET n == Len(inv.log)
  IN /\ n <= config.max_llm_retries + 1
     /\ \A i \in 1..(n - 1) : inv.log[i] = "retryable" /\ i <= config.max_llm_retries
     /\ pc = "llm" => /\ inv.attempt = n + 1
                      /\ inv.attempt \in AttemptRange
                      /\ \A i \in 1..n : inv.log[i] = "retryable"
     /\ InvocationEnded
          => /\ n >= 1
             /\ inv.last_attempt = n
             /\ IF inv.response_data.kind = "none"
                THEN /\ inv.log[n] \in {"retryable", "fatal"}
                     /\ inv.llm_error.attempt = n
                     /\ inv.llm_error.retryable = (inv.log[n] = "retryable")
                     /\ inv.log[n] = "retryable"
                          => n = config.max_llm_retries + 1
                ELSE /\ inv.log[n] = "returned"
                     /\ inv.llm_error = NoError

C6_Witness ==
  /\ pc = "after_invoke"
  /\ config.max_llm_retries = 1
  /\ inv.log = <<"retryable", "retryable">>
  /\ inv.llm_error = [attempt |-> 2, retryable |-> TRUE]

\* C7: in mode native_with_json_fallback a native invocation that ends
\* without a response is followed by exactly one further invocation in that
\* turn, without tools and with the plain-JSON prompt, and the run fails with
\* llm_request_failed only when that one also ends without a response; in
\* modes json_only and native_only there is no fallback invocation and a
\* failed invocation fails the run with llm_request_failed directly.
DecisionInvocations ==
  SelectSeq(turn_invocations, LAMBDA i : i.call_site = "decision_loop")

FallbackMode == config.structured_output_mode = "native_with_json_fallback"

C7_FallbackOnce ==
  /\ [](LET dl == DecisionInvocations
        IN /\ Len(dl) <= (IF FallbackMode THEN 2 ELSE 1)
           /\ Len(dl) = 2 => dl[1].tools /\ ~dl[2].tools
           /\ (Len(dl) = 2 /\ pc \in {"llm", "after_fallback"}
                 /\ inv.call_site = "decision_loop")
                => /\ ~inv.tools
                   /\ ~inv.force_tool_use
                   /\ prompt = BuildPrompt(FALSE, blocked_self_handoff_skill)
           /\ Failed("llm_request_failed")
                => /\ inv.response_data.kind = "none"
                   /\ Len(dl) = (IF FallbackMode THEN 2 ELSE 1))
  /\ [][ /\ (pc = "after_invoke" /\ inv.response_data.kind = "none"
               /\ pc' # pc)
            => IF FallbackMode
               THEN /\ pc' = "llm"
                    /\ Len(DecisionInvocations') = 2
                    /\ run_result' = Running
               ELSE /\ Failed("llm_request_failed")'
                    /\ provider_calls' = provider_calls
         /\ (Len(DecisionInvocations') = 2 /\ Len(DecisionInvocations) # 2)
            => (pc = "after_invoke" /\ inv.response_data.kind = "none") ]_vars

C7_Witness ==
  /\ Failed("llm_request_failed")
  /\ FallbackMode
  /\ Len(DecisionInvocations) = 2
  /\ provider_calls.raised = 2


\* C8: with the transcript enabled, a returned run has as many transcript
\* records as provider calls: one request_failed record carrying the
\* retryable flag per attempt that raised, and one success or decode_failed
\* record per attempt that returned, at both call sites.
RecordsWith(statuses) ==
  { i \in 1..Len(transcript) : transcript[i].status \in statuses }

C9_InterruptAtTurnStart ==
  /\ [][ /\ (pc = "loop" /\ turn_index < config.max_turns /\ stop_requested
               /\ pc' # pc)
            => /\ pc' = "done"
               /\ Failed("interrupted")'
               /\ Calls' = Calls
         /\ Failed("interrupted") => Calls' = Calls ]_vars
  /\ [](Failed("interrupted") => stop_requested)

C9_Witness ==
  /\ Failed("interrupted")
  /\ turn_index = 2
  /\ provider_calls.returned >= 1
  /\ accumulated_results # <<>>

\* C10 as stated: a run that received the interrupt signal while its turn
\* loop was active ends as failed with reason interrupted.
C10_AsStated ==
  (Done /\ stop_requested) => Failed("interrupted")

\* C10 amended: after the signal no further turn is started; the run ends
\* as interrupted at the next turn boundary when the turn in progress
\* reaches one, and otherwise ends with the result of the turn in which the
\* signal arrived (success, that turn's failure, or max_turns_exceeded when
\* it was the last turn).
C10_InterruptAtNextBoundary ==
  /\ (stop_requested /\ ~Done) => turn_index = signal_turn
  /\ (stop_requested /\ Done)
       => /\ Failed("interrupted") <=> turn_index = signal_turn + 1
          /\ ~Failed("interrupted") => turn_index = signal_turn
          /\ Failed("max_turns_exceeded") => signal_turn = config.max_turns
  /\ (stop_requested /\ pc = "loop" /\ turn_index < config.max_turns)
       => ENABLED Interrupted /\ ~ENABLED StartTurn

C10_Witness ==
  /\ Failed("interrupted")
  /\ signal_turn = 1
  /\ turn_index = 2
  /\ executor_calls >= 1


\* C11: once a turn has executed a finish action with no failed step the run
\* returns success whatever the synthesis invocation does; when every
\* synthesis attempt raises or the response holds no answer the final
\* summary is the preliminary finish message unchanged.
Synthesizing ==
  inv.call_site = "final_answer_synthesis" /\ pc \in {"llm", "after_synthesis"}

C11_SynthesisNeverFatal ==
  /\ [](Synthesizing => /\ should_finish
                        /\ ~AnyFailed(step_results)
                        /\ run_result = Running
                        /\ final_summary = finish_summary)
  /\ []((Done /\ should_finish) => Succeeded)
  /\ [][ /\ (pc = "turn_end" /\ should_finish /\ pc' # pc)
            => /\ final_summary' = finish_summary
               /\ \/ pc' = "done" /\ Succeeded'
                  \/ pc' = "llm" /\ Synthesizing'
         /\ (Synthesizing /\ pc' # pc)
            => /\ pc' \in {"llm", "after_synthesis", "done"}
               /\ pc' = "done"
                    => /\ Succeeded'
                       /\ final_summary' =
                            IF inv.response_data.kind = "answer"
                            THEN "answer" ELSE finish_summary ]_vars

C11_Witness ==
  /\ Done
  /\ Succeeded
  /\ inv.call_site = "final_answer_synthesis"
  /\ inv.response_data.kind = "none"
  /\ inv.log = <<"retryable", "fatal">>
  /\ finish_summary # ""
  /\ final_summary = finish_summary


\* C18: a provider call is made only in a run that is not a dry run, loaded
\* at least one skill, has at least one candidate after the zero-candidate
\* strategy and has provider credentials; a dry run that gets past the skill
\* and candidate checks returns success with dry_run_prompt.txt written and
\* no provider call; no_skills_found, prefilter_zero_candidates and
\* missing_provider_api_key are returned before turn 1 with no provider
\* call, no command and no tool call.
NoCalls == <<[returned |-> 0, raised |-> 0], 0, 0>>

SetupFailures ==
  {"no_skills_found", "prefilter_zero_candidates", "missing_provider_api_key"}

C18_ProviderCallNeedsSetup ==
  /\ Calls # NoCalls
       => /\ ~dry_run
          /\ setup.skills > 0
          /\ setup.candidates > 0
          /\ setup.credentials = "present"
  /\ (Done /\ dry_run /\ setup.candidates > 0)
       => /\ Succeeded
          /\ setup.dry_run_prompt
          /\ Calls = NoCalls
          /\ transcript = <<>>
  /\ setup.dry_run_prompt => (dry_run /\ Done)
  /\ \A reason \in SetupFailures :
       Failed(reason) => (turn_index = 0 /\ Calls = NoCalls /\ Done)
  /\ (Done /\ setup.skills = 0) <=> Failed("no_skills_found")
  /\ Failed("prefilter_zero_candidates")
       => (setup.skills > 0 /\ setup.candidates = 0)
  /\ (Done /\ ~dry_run /\ setup.credentials = "absent")
       <=> Failed("missing_provider_api_key")

C18_Witness ==
  /\ Done
  /\ dry_run
  /\ Succeeded
  /\ setup.dry_run_prompt
  /\ setup.mcp = "connected"
  /\ Calls = NoCalls

ToolsAbsent ==
  /\ mcp_manager = "none"
  /\ mcp_tool_catalog = "empty"
  /\ tool_calls = 0

C20_ConnectFailureDegrades ==
  /\ [](setup.mcp \in {"connection_failed", "not_configured"} => ToolsAbsent)
  /\ [][ (pc = "mcp_connect" /\ mcp_manager' = "none")
           => /\ setup'.mcp = "connection_failed"
              /\ pc' = "ready"
              /\ run_result' = Running ]_vars
  /\ [][ (setup.mcp = "connection_failed" /\ pc' = "done")
           => \/ pc \in {"loop", "llm", "after_invoke", "after_fallback",
                          "turn_end", "after_synthesis"}
              \/ pc = "ready" /\ (dry_run \/ Failed("missing_provider_api_key")') ]_vars

C20_Witness ==
  /\ Done
  /\ setup.mcp = "connection_failed"
  /\ Succeeded
  /\ turn_index >= 1
  /\ executor_calls >= 1
  /\ ToolsAbsent

\* C22: run_started is the first event of every run; a run that has returned
\* failed has emitted exactly one run_failed event, whose reason is one of
\* the nine enumerated reasons, and no run_finished event, and its message
\* is the one that belongs to the reason; a run that has returned success
\* has emitted exactly one run_finished event and no run_failed event; a
\* run that has not returned has emitted neither.
FailureReasons ==
  {"no_skills_found", "prefilter_zero_candidates", "missing_provider_api_key",
   "interrupted", "llm_request_failed", "decode_failed", "self_handoff_loop",
   "step_execution_failed", "max_turns_exceeded"}

ReasonMessage(reason) ==
  CASE reason = "no_skills_found" -> "No skills found"
    [] reason = "prefilter_zero_candidates" -> "No candidate skills matched"
    [] reason = "missing_provider_api_key" -> "Missing provider API key"
    [] reason = "interrupted" -> "Interrupted by signal"
    [] reason = "llm_request_failed" -> "LLM request failed"
    [] reason = "decode_failed" -> "Failed to decode model response"
    [] reason = "self_handoff_loop" -> "Detected repeated self-handoff loop"
    [] reason = "step_execution_failed" -> "Action execution failed"
    [] reason = "max_turns_exceeded" -> "Max turns exceeded"
    [] OTHER -> "?"

EventsOfType(type) ==
  { i \in 1..Len(events) : events[i].event_type = type }

C22_OneTerminalEvent ==
  /\ EventsOfType("run_started") = {1}
  /\ run_result.status = "failed"
       => /\ Done
          /\ Len(events) = 2
          /\ events[2] = RunFailed(run_result.reason)
          /\ run_result.reason \in FailureReasons
          /\ message = ReasonMessage(run_result.reason)
  /\ run_result.status = "success"
       => /\ Done
          /\ events = << RunStarted, RunFinished >>
          /\ message \in {"Run completed", "Dry run complete"}
          /\ (message = "Dry run complete") <=> dry_run
  /\ run_result.status \notin {"failed", "success"}
       => /\ events = << RunStarted >>
          /\ message = ""

C22_Witness ==
  /\ Done
  /\ Failed("step_execution_failed")
  /\ turn_index = 2
  /\ events = << RunStarted, RunFailed("step_execution_failed") >>
  /\ message = "Action execution failed"

\* C21: every run that has ended has produced a RunResult whose status is
\* success or failed.
C21_ReturnsRunResult ==
  Done => run_result.status \in {"success", "failed"}

\* every step the run can take is eventually taken
LiveSpec == Init /\ [][Next]_vars /\ WF_vars(Next)

\* under LiveSpec every run reaches the end of run()
Terminates == <>Done

\* C24: a finish action is recorded as a successful step, and it is the last
\* step of its turn: no action of the decision that comes after a finish is
\* executed.
C24_FinishEndsTurn ==
  \A i \in 1..Len(step_results) :
    decision.planned_actions[i].type = "finish"
      => /\ step_results[i].status = "success"
         /\ i = Len(step_results)

\* C26: the turn-end bookkeeping sets the self-handoff counter to 0 when the
\* executed decision is not a pure self-handoff and to one more than before
\* when it is, and nothing else changes the counter; the recovery decision
\* is substituted exactly when the decoded decision is a pure self-handoff
\* and the counter left by the previous turn is at least 1; a recovery
\* decision contains an action that is not call_skill, so the turn that
\* executes it leaves the counter at 0.
C26_CounterDiscipline ==
  [][/\ (pc = "turn_end" /\ pc' # "turn_end")
          => consecutive_self_handoff_turns' =
               IF IsSelfHandoffOnly(decision.selected_skill,
                                    decision.planned_actions)
               THEN consecutive_self_handoff_turns + 1
               ELSE 0
     /\ pc # "turn_end"
          => consecutive_self_handoff_turns' = consecutive_self_handoff_turns
     /\ (pc \in {"after_invoke", "after_fallback"} /\ pc' = "execute")
          => LET decoded == DecodeModelDecision(inv.response_data.decision)
             IN /\ recovered'
                     <=> /\ IsSelfHandoffOnly(decoded.selected_skill,
                                              decoded.planned_actions)
                         /\ consecutive_self_handoff_turns >= 1
                /\ recovered' => HasNonCallSkill(decision'.planned_actions)
                /\ ~recovered' => decision' = decoded
     /\ (pc = "turn_end" /\ recovered /\ pc' # "turn_end")
          => consecutive_self_handoff_turns' = 0
    ]_vars

\* turn 1 executed a self-handoff, turn 2 executed the recovery decision and
\* left the counter at 0
C26_Witness ==
  /\ Done
  /\ recovered
  /\ turn_index = 2
  /\ Len(accumulated_results) >= 2
  /\ consecutive_self_handoff_turns = 0
  /\ blocked_self_handoff_skill = ""

\* C27: the prompt built at the start of a turn carries the RUN_CONSTRAINTS
\* block naming skill X exactly when the turn before it executed a pure
\* self-handoff selecting X: a turn that goes on to a next turn leaves X as
\* the blocked skill when its executed decision is a pure self-handoff
\* selecting X and leaves none otherwise, nothing happens between the end of
\* that turn and the next build_prompt, and the prompt names exactly the
\* blocked skill that was left; the prompt of turn 1 has no such block.
C27_BlockedSkillInPrompt ==
  [][/\ (pc = "turn_end" /\ pc' = "loop")
          => blocked_self_handoff_skill' =
               IF IsSelfHandoffOnly(decision.selected_skill,
                                    decision.planned_actions)
               THEN decision.selected_skill
               ELSE ""
     /\ pc # "turn_end"
          => blocked_self_handoff_skill' = blocked_self_handoff_skill
     /\ (pc = "loop" /\ pc' = "llm")
          => /\ prompt'.kind = "decision"
             /\ prompt'.blocked_skill_name = blocked_self_handoff_skill
             /\ turn_index = 0 => prompt'.blocked_skill_name = ""
    ]_vars

\* turn 2 is prompted with the skill that turn 1 handed off to itself
C27_Witness ==
  /\ pc = "llm"
  /\ turn_index = 2
  /\ prompt.kind = "decision"
  /\ prompt.blocked_skill_name = "X"
  /\ Len(accumulated_results) = 1
  /\ accumulated_results[1].status = "success"

\* the step that executes the current action appends its result
StepRecorded(type) ==
  /\ Executing(type)
  /\ Len(step_results') = Len(step_results) + 1

\* C28: a run_command step with a non-blank command invokes the executor
\* once, and a second time exactly when the first invocation exits non-zero
\* and the failure policy is retry_once_then_fallback_then_abort; never a
\* third time; the step's status and exit code are those of the last
\* invocation; a run_command with a blank command fails the step without
\* invoking the executor; nothing but a run_command step invokes it.
C28_RetryAtMostOnce ==
  [][/\ StepRecorded("run_command")
          => LET result == step_results'[Len(step_results')]
                 invoked == executor_calls' - executor_calls
             IN IF CurrentAction.arg \in {"", " "}
                THEN /\ invoked = 0
                     /\ result.status = "failed"
                     /\ result.exit_code = 1
                ELSE /\ invoked = Len(executions')
                     /\ invoked \in {1, 2}
                     /\ invoked = 2
                          <=> /\ executions'[1] # 0
                              /\ config.on_step_failure =
                                   "retry_once_then_fallback_then_abort"
                     /\ result.exit_code = executions'[invoked]
                     /\ result.status = IF executions'[invoked] = 0
                                        THEN "success" ELSE "failed"
                     /\ result.retry_count = invoked - 1
     /\ ~StepRecorded("run_command") => executor_calls' = executor_calls
    ]_vars

\* a command that exits non-zero and succeeds when it is run again
C28_Witness ==
  /\ pc = "turn_end"
  /\ executions = <<1, 0>>
  /\ executor_calls = 2
  /\ step_results # <<>>
  /\ step_results[Len(step_results)].status = "success"
  /\ step_results[Len(step_results)].retry_count = 1

\* candidates[0].skill_name: the one skill whose sections stage 1 discloses
PrimarySkill == "X"

\* the skills that own a snippet of disclosed_snippets; no decision of the
\* model requests disclosure paths, so every snippet is a stage-1 section
DisclosedSkills == { PrimarySkill : key \in DOMAIN disclosed_snippets }

\* C29: a call_skill action with a skill_name succeeds without a call of the
\* executor or of a tool, and when a turn with a successful call_skill to
\* skill S goes on to the next turn, the disclosed context that turn's prompt
\* is built from contains content of S.
C29_CalledSkillDisclosed ==
  [][/\ StepRecorded("call_skill")
          => /\ Calls' = Calls
             /\ CurrentAction.arg # ""
                  => step_results'[Len(step_results')].status = "success"
     /\ (pc = "turn_end" /\ pc' = "loop")
          => \A i \in 1..Len(step_results) :
               (/\ decision.planned_actions[i].type = "call_skill"
                /\ step_results[i].status = "success")
                 => decision.planned_actions[i].arg \in DisclosedSkills'
    ]_vars

\* every step the run has executed was an ask_user step
OnlyAskUserExecuted ==
  /\ accumulated_results # <<>>
  /\ \A i \in 1..Len(accumulated_results) :
       accumulated_results[i].status = "skipped"

\* C30, per step: an ask_user action is recorded as a step with status
\* skipped and exit code 0, calls neither the executor nor a tool, leaves
\* the finish flag and the run's result as they are, and the loop over the
\* decision's actions goes on with the next action.
C30_AskUserSkipped ==
  [][StepRecorded("ask_user")
       => /\ step_results'[Len(step_results')] =
               StepExecutionResult(next_action, 0, "skipped", 0, "none")
          /\ Calls' = Calls
          /\ should_finish' = should_finish
          /\ run_result' = run_result
          /\ next_action' = next_action + 1
          /\ pc' = IF next_action < Len(decision.planned_actions)
                   THEN "execute" ELSE "turn_end"
    ]_vars

\* C30, per run: a run whose provider calls all return decodable decisions,
\* that is not interrupted and that has executed ask_user steps only, ends
\* with max_turns_exceeded after max_turns turns.
C30_OnlyAskUserExhaustsTurns ==
  (/\ Done
   /\ OnlyAskUserExecuted
   /\ ~Failed("interrupted")
   /\ ~Failed("llm_request_failed")
   /\ ~Failed("decode_failed"))
    => /\ Failed("max_turns_exceeded")
       /\ turn_index = config.max_turns

\* C30: both parts
C30_AskUserNeverEndsRun ==
  /\ C30_AskUserSkipped
  /\ []C30_OnlyAskUserExhaustsTurns

\* every turn of the run was answered with ask_user
C30_Witness ==
  /\ Done
  /\ OnlyAskUserExecuted
  /\ Failed("max_turns_exceeded")
  /\ Len(accumulated_results) = MaxTurns
  /\ config.max_turns = MaxTurns

\* the step of run() that starts the final-answer synthesis invocation
SynthesisStarts ==
  /\ inv.call_site # "final_answer_synthesis"
  /\ inv'.call_site = "final_answer_synthesis"

\* the turn's bookkeeping is done and the turn had a finish without failure
FinishingTurnEnds ==
  /\ pc = "turn_end"
  /\ pc' # "turn_end"
  /\ should_finish

\* successful steps of the current turn whose stdout artifact is of a kind
StepsWithStdout(kinds) ==
  { i \in 1..Len(step_results) :
      /\ step_results[i].status = "success"
      /\ step_results[i].stdout_artifact # "none"
      /\ stdout_files[i] \in kinds }

\* C31 as stated: the synthesis is invoked exactly when some successful step
\* of the finishing turn left a non-empty stdout artifact.
C31_AsStated ==
  [][FinishingTurnEnds
       => (SynthesisStarts <=> StepsWithStdout({"blank", "text"}) # {})
    ]_vars

\* C31 amended: the synthesis is invoked at most once per run, only after a
\* turn that executed finish with no failed step, and exactly when some
\* successful step of that finishing turn left a stdout artifact that holds
\* text after stripping white space (an artifact of white space only starts
\* no synthesis); a finishing turn without such a step makes no synthesis
\* call and the run succeeds with the finish message as final summary,
\* whatever earlier turns produced.
C31_SynthesisOnEvidence ==
  [][/\ SynthesisStarts
          => /\ FinishingTurnEnds
             /\ ~AnyFailed(step_results)
             /\ \E i \in 1..Len(step_results) :
                  decision.planned_actions[i].type = "finish"
     /\ FinishingTurnEnds
          => /\ SynthesisStarts <=> StepsWithStdout({"text"}) # {}
             /\ ~SynthesisStarts
                  => /\ pc' = "done"
                     /\ Succeeded'
                     /\ final_summary' = finish_summary
                     /\ provider_calls' = provider_calls
     /\ inv.call_site = "final_answer_synthesis"
          => /\ inv'.call_site = "final_answer_synthesis"
             /\ turn_invocations' = turn_invocations
    ]_vars

\* a finishing turn whose command printed text, answered by the synthesis
C31_Witness ==
  /\ Done
  /\ Succeeded
  /\ inv.call_site = "final_answer_synthesis"
  /\ StepsWithStdout({"text"}) # {}
  /\ final_summary = "answer"

\* a finishing turn whose only command printed white space: no synthesis
C31_WitnessBlank ==
  /\ Done
  /\ Succeeded
  /\ inv.call_site # "final_answer_synthesis"
  /\ StepsWithStdout({"blank"}) # {}
  /\ final_summary = finish_summary

\* C38: in every reachable state of a run the consecutive self-handoff
\* counter is 0 or 1: a pure self-handoff decoded while the counter is 1 is
\* always replaced by a recovery decision that resets it, so the counter
\* never reaches 2 and no run ends with reason self_handoff_loop.
C38_CounterBelowTwo ==
  /\ consecutive_self_handoff_turns \in {0, 1}
  /\ ~Failed("self_handoff_loop")
  /\ \A i \in 1..Len(events) : events[i] # RunFailed("self_handoff_loop")
  /\ (pc \in {"execute", "turn_end"} /\ consecutive_self_handoff_turns = 1)
       => /\ ~IsSelfHandoffOnly(decision.selected_skill,
                                decision.planned_actions)
          /\ only_handoff_to \in Skills => recovered

\* the counter is 1 and the model has handed off to itself again: the turn
\* is about to execute the recovery decision
C38_Witness ==
  /\ pc = "execute"
  /\ consecutive_self_handoff_turns = 1
  /\ only_handoff_to \in Skills
  /\ recovered
  /\ HasNonCallSkill(decision.planned_actions)

\* every action is a call_skill whose target is the selected skill
PureHandoffTo(skill, actions) ==
  /\ skill # ""
  /\ actions # <<>>
  /\ \A i \in 1..Len(actions) :
       actions[i].type = "call_skill" /\ actions[i].arg = skill

\* some call_skill action names a skill other than the selected one
CallsOtherSkill(selected_skill, actions) ==
  \E i \in 1..Len(actions) :
    actions[i].type = "call_skill" /\ actions[i].arg # selected_skill

\* run_command steps for the first two default commands, then a finish
RecoveryPlanFor(skill) ==
  LET commands == DefaultCommands(skill)
      count == IF Len(commands) < 2 THEN Len(commands) ELSE 2
  IN [i \in 1..count |-> ActionStep("run_command", commands[i])]
       \o << ActionStep("finish", "recovered") >>

\* C39: the loop breaker keys on the counter, not on the blocked skill's
\* name: if turn t executes a pure self-handoff to skill X and turn t+1
\* decodes a pure self-handoff to a different skill Y, turn t+1 still
\* executes a recovery decision (built from Y's defaults) in place of the
\* handoff to Y; and a decision whose call_skill target differs from its
\* selected_skill is never counted as a self-handoff.
C39_BreakerKeysOnCounter ==
  [][/\ (/\ pc \in {"after_invoke", "after_fallback"}
         /\ pc' = "execute"
         /\ blocked_self_handoff_skill # ""
         /\ LET decoded == DecodeModelDecision(inv.response_data.decision)
            IN /\ PureHandoffTo(decoded.selected_skill,
                                decoded.planned_actions)
               /\ decoded.selected_skill # blocked_self_handoff_skill)
          => /\ recovered'
             /\ decision'.selected_skill
                  = inv.response_data.decision.selected_skill
             /\ decision'.planned_actions
                  = RecoveryPlanFor(decision'.selected_skill)
     /\ (/\ pc = "turn_end"
         /\ pc' # "turn_end"
         /\ CallsOtherSkill(decision.selected_skill,
                            decision.planned_actions))
          => /\ consecutive_self_handoff_turns' = 0
             /\ blocked_self_handoff_skill' = ""
    ]_vars

\* turn 1 handed off to X, turn 2 decoded a handoff to Y and executes the
\* recovery built from Y's default command
C39_Witness ==
  /\ pc = "execute"
  /\ turn_index = 2
  /\ blocked_self_handoff_skill = "X"
  /\ consecutive_self_handoff_turns = 1
  /\ recovered
  /\ decision.selected_skill = "Y"
  /\ decision.planned_actions
       = << ActionStep("run_command", "cy"),
            ActionStep("finish", "recovered") >>

\* a handoff from X to Y has been executed and the turn is about to count it
C39_WitnessOtherSkill ==
  /\ pc = "turn_end"
  /\ decision = Plan("X", << Call("Y") >>)
  /\ step_results # <<>>
  /\ HandoffCountAfter = 0

\* C40: whenever a run has connected to external-tool servers successfully,
\* the tool manager is closed before run returns, on every exit path:
\* finish, every failure reason, interrupt, max turns, dry run and missing
\* credentials.
C40_ManagerClosedOnReturn ==
  (Done /\ setup.mcp = "connected") => mcp_manager = "closed"

\* ============================================ functions studied on their own
\* the run is parked before its first turn while a function is studied
DefaultConfig ==
  [max_turns |-> MaxTurns, max_llm_retries |-> MaxRetries,
   structured_output_mode |-> "json_only",
   on_step_failure |-> "retry_once_then_fallback_then_abort",
   llm_transcript_enabled |-> TRUE]

Parked ==
  /\ config = DefaultConfig
  /\ mcp_manager = "none"
  /\ sink_state = NewSink
  /\ LoopStart

runVars == <<cfgVars, loopVars, llmVars, execVars, sigVars, histVars, discVars,
             setupVars, evVars>>

\* --------------------------------------------------- llm/decoder.py
\* longest planned_actions list handed to the decoder
MaxSteps == 1

\* a key that is missing, or whose value is None
Absent == "<absent>"

\* str.strip() and str.lower() on the strings that occur
Strip(s) ==
  CASE s = " " -> ""
    [] s = " Finish " -> "Finish"
    [] s = " Alpha " -> "Alpha"
    [] OTHER -> s

Lower(s) ==
  CASE s = "Finish" -> "finish"
    [] s = "RUN_COMMAND" -> "run_command"
    [] s = "Run_Command" -> "run_command"
    [] s = "Alpha" -> "alpha"
    [] s = "Deploy" -> "deploy"
    [] OTHER -> s

NormalizeToken(value) == IF value = Absent THEN "" ELSE Lower(Strip(value))

\* Python truthiness of an optional string
Falsy(v) == v \in {Absent, ""}

ActionType == {"call_skill", "run_command", "ask_user", "finish"}

BASE_ACTION_TYPE_ALIASES(raw_key) ==
  CASE raw_key \in {"execute_skill", "invoke_skill", "use_skill"} -> "call_skill"
    [] raw_key \in {"run", "run_shell", "execute_command"} -> "run_command"
    [] raw_key = "request_disclosure" -> "ask_user"
    [] raw_key \in {"format_output", "summarize_output", "complete"} -> "finish"
    [] OTHER -> raw_key

\* alias and default tables are sequences of entries in dict order
AliasEntry(skill, raw, canonical) ==
  [skill |-> skill, raw |-> raw, canonical |-> canonical]

DefaultEntry(skill, action, command) ==
  [skill |-> skill, action |-> action, command |-> command]

MapSeq(seq, Op(_)) == [i \in 1..Len(seq) |-> Op(seq[i])]

NormalizeSkillAliases(skill_action_aliases) ==
  LET norm(e) == AliasEntry(NormalizeToken(e.skill), NormalizeToken(e.raw),
                            NormalizeToken(e.canonical))
      kept(e) == e.skill # "" /\ e.raw # "" /\ e.canonical # ""
  IN SelectSeq(MapSeq(skill_action_aliases, norm), kept)

NormalizeDefaultActionParams(skill_default_action_params) ==
  LET norm(e) == DefaultEntry(NormalizeToken(e.skill), NormalizeToken(e.action),
                              e.command)
      kept(e) == e.skill # "" /\ e.action # ""
  IN SelectSeq(MapSeq(skill_default_action_params, norm), kept)

\* first entry of a table that satisfies Test, or the value none
FirstMatch(table, Test(_), none) ==
  LET hits == SelectSeq(table, Test)
  IN IF hits = <<>> THEN none ELSE Head(hits)

ResolveActionType(raw_type, selected_skill, skill_aliases) ==
  LET raw_key == NormalizeToken(raw_type)
      selected_skill_key == NormalizeToken(selected_skill)
      own(e) == e.skill = selected_skill_key /\ e.raw = raw_key
      anySkill(e) == e.raw = raw_key
      none == AliasEntry("", "", "")
      own_alias == IF selected_skill_key # ""
                   THEN FirstMatch(skill_aliases, own, none).canonical ELSE ""
      any_alias == FirstMatch(skill_aliases, anySkill, none).canonical
  IN IF raw_key = "" THEN ""
     ELSE IF own_alias # "" THEN own_alias
     ELSE IF any_alias # "" THEN any_alias
     ELSE BASE_ACTION_TYPE_ALIASES(raw_key)

\* the command of the default params found, Absent when there are none
ResolveDefaultParams(raw_type, normalized_type, selected_skill, defaults) ==
  LET selected_skill_key == NormalizeToken(selected_skill)
      keys == {NormalizeToken(raw_type), NormalizeToken(normalized_type)}
      ownRaw(e) == /\ e.skill = selected_skill_key
                   /\ e.action = NormalizeToken(raw_type)
      ownNormalized(e) == /\ e.skill = selected_skill_key
                          /\ e.action = NormalizeToken(normalized_type)
      anySkill(e) == e.action \in keys
      none == DefaultEntry("", "", Absent)
      own_params ==
        IF selected_skill_key = "" THEN Absent
        ELSE IF FirstMatch(defaults, ownRaw, none).command # Absent
        THEN FirstMatch(defaults, ownRaw, none).command
        ELSE FirstMatch(defaults, ownNormalized, none).command
  IN IF own_params # Absent THEN own_params
     ELSE FirstMatch(defaults, anySkill, none).command


\* a planned_actions entry as the provider sent it; is_dict is FALSE for an
\* entry that is not a JSON object
RawStep(type, action, pcommand, pskill, command, skill_name, finish) ==
  [is_dict |-> TRUE, type |-> type, action |-> action,
   params_command |-> pcommand, params_skill_name |-> pskill,
   command |-> command, skill_name |-> skill_name, finish |-> finish]

NonDictStep ==
  [is_dict |-> FALSE, type |-> Absent, action |-> Absent,
   params_command |-> Absent, params_skill_name |-> Absent,
   command |-> Absent, skill_name |-> Absent, finish |-> FALSE]

\* params["message"] of a demoted step: the fixed text and the action label
Message(text, label) == [text |-> text, label |-> label]
NoMessage == Message("", "")

NormalizedStep(type, command, skill_name) ==
  [type |-> type, command |-> command, skill_name |-> skill_name,
   message |-> NoMessage]

\* mutant: the demoted step carries no message
Demoted_silent(text, label) == NormalizedStep("ask_user", Absent, Absent)

\* the step is replaced by ask_user with params {"message": text + label}
Demoted(text, label) ==
  [NormalizedStep("ask_user", Absent, Absent)
     EXCEPT !.message = Message(text, label)]

\* mutant: an unsupported type is passed on unchanged
NormalizeActionStep_passthrough(step, selected_skill, skill_aliases, defaults) ==
  LET raw_type_value == IF ~Falsy(step.type) THEN step.type
                        ELSE IF ~Falsy(step.action) THEN step.action ELSE ""
      raw_type == Strip(raw_type_value)
      resolved == ResolveActionType(raw_type, selected_skill, skill_aliases)
      skill_name == IF ~Falsy(step.skill_name) /\ step.params_skill_name = Absent
                    THEN step.skill_name ELSE step.params_skill_name
      command == IF /\ step.command # Absent
                    /\ Strip(step.command) # ""
                    /\ step.params_command = Absent
                 THEN step.command ELSE step.params_command
      normalized_type ==
        IF resolved # "" THEN resolved
        ELSE IF command # Absent THEN "run_command"
        ELSE IF skill_name # Absent THEN "call_skill"
        ELSE IF step.finish THEN "finish"
        ELSE ""
      default_command == ResolveDefaultParams(raw_type, normalized_type,
                                              selected_skill, defaults)
      merged_command == IF default_command # Absent /\ command = Absent
                        THEN default_command ELSE command
  IN IF normalized_type = "call_skill"
     THEN NormalizedStep("call_skill", command,
            IF Falsy(skill_name) /\ ~Falsy(selected_skill)
            THEN selected_skill ELSE skill_name)
     ELSE IF normalized_type = "run_command"
     THEN IF Falsy(merged_command)
          THEN Demoted("Non-executable action: ",
                       IF raw_type # "" THEN raw_type ELSE normalized_type)
          ELSE NormalizedStep("run_command", merged_command, skill_name)
     ELSE NormalizedStep(normalized_type, command, skill_name)

NormalizeActionStep(step, selected_skill, skill_aliases, defaults) ==
  LET raw_type_value == IF ~Falsy(step.type) THEN step.type
                        ELSE IF ~Falsy(step.action) THEN step.action ELSE ""
      raw_type == Strip(raw_type_value)
      resolved == ResolveActionType(raw_type, selected_skill, skill_aliases)
      skill_name == IF ~Falsy(step.skill_name) /\ step.params_skill_name = Absent
                    THEN step.skill_name ELSE step.params_skill_name
      command == IF /\ step.command # Absent
                    /\ Strip(step.command) # ""
                    /\ step.params_command = Absent
                 THEN step.command ELSE step.params_command
      normalized_type ==
        IF resolved # "" THEN resolved
        ELSE IF command # Absent THEN "run_command"
        ELSE IF skill_name # Absent THEN "call_skill"
        ELSE IF step.finish THEN "finish"
        ELSE ""
      default_command == ResolveDefaultParams(raw_type, normalized_type,
                                              selected_skill, defaults)
      merged_command == IF default_command # Absent /\ command = Absent
                        THEN default_command ELSE command
  IN IF normalized_type = "call_skill"
     THEN NormalizedStep("call_skill", command,
            IF Falsy(skill_name) /\ ~Falsy(selected_skill)
            THEN selected_skill ELSE skill_name)
     ELSE IF normalized_type = "run_command"
     THEN IF Falsy(merged_command)
          THEN Demoted("Non-executable action: ",
                       IF raw_type # "" THEN raw_type ELSE normalized_type)
          ELSE NormalizedStep("run_command", merged_command, skill_name)
     ELSE IF normalized_type \notin {"ask_user", "finish"}
     THEN Demoted("Unsupported action type: ",
                  IF raw_type # "" THEN raw_type ELSE "unknown")
     ELSE NormalizedStep(normalized_type, command, skill_name)

\* payload.actions is "missing", "not_list" or "list"
Payload(selected_skill, actions, planned_actions) ==
  [selected_skill |-> selected_skill, actions |-> actions,
   planned_actions |-> planned_actions]

FinishOnly == << NormalizedStep("finish", Absent, Absent) >>

RepairPayload(payload, skill_action_aliases, skill_default_action_params) ==
  LET normalized_skill_aliases == NormalizeSkillAliases(skill_action_aliases)
      normalized_skill_defaults ==
        NormalizeDefaultActionParams(skill_default_action_params)
      selected_skill ==
        IF payload.selected_skill = Absent THEN Absent
        ELSE IF Strip(payload.selected_skill) = "" THEN Absent
        ELSE Strip(payload.selected_skill)
      isDict(step) == step.is_dict
      normalize(step) == NormalizeActionStep(step, selected_skill,
                           normalized_skill_aliases, normalized_skill_defaults)
      normalized_actions ==
        MapSeq(SelectSeq(payload.planned_actions, isDict), normalize)
  IN [selected_skill |-> selected_skill,
      actions |-> IF payload.actions = "missing" THEN "list"
                  ELSE payload.actions,
      planned_actions |->
        IF payload.actions = "missing" THEN FinishOnly
        ELSE IF payload.actions = "not_list" THEN <<>>
        ELSE IF normalized_actions = <<>> THEN FinishOnly
        ELSE normalized_actions]

\* ModelDecision.model_validate: planned_actions is a list of ActionStep
ModelValidate(payload) ==
  /\ payload.actions = "list"
  /\ \A i \in 1..Len(payload.planned_actions) :
       payload.planned_actions[i].type \in ActionType

decode_model_decision(raw, skill_action_aliases, skill_default_action_params) ==
  LET payload == RepairPayload(raw, skill_action_aliases,
                               skill_default_action_params)
  IN [fn |-> "decode_model_decision", repaired |-> payload,
      error |-> IF ModelValidate(payload) THEN "" ELSE "DecodeError"]


RawTypes ==
  {Absent, "finish", " Finish ", "run_command", "RUN_COMMAND", "call_skill",
   "ask_user", "mcp_call", "mcp_tool", "run", "complete", "Deploy", "probe",
   "launch", "unknown_op"}

RawSteps ==
  { RawStep(t, Absent, c, Absent, Absent, Absent, FALSE) :
      t \in RawTypes, c \in {Absent, "", "c"} }
  \cup
  { RawStep(Absent, x[1], x[2], x[3], x[4], x[5], x[6]) :
      x \in {Absent, "run"} \X {Absent, "c"} \X {Absent, "alpha"}
            \X {Absent, " ", "c"} \X {Absent, "alpha"} \X BOOLEAN }
  \cup {NonDictStep}

AliasTables ==
  { <<>>,
    << AliasEntry(" Alpha ", "Deploy", "Run_Command"),
       AliasEntry(" Alpha ", "probe", "mcp_call"),
       AliasEntry("beta", "launch", "bogus"),
       AliasEntry("beta", "blank", " ") >> }

DefaultTables ==
  { <<>>,
    << DefaultEntry("alpha", "deploy", "d") >>,
    << DefaultEntry("beta", "run_command", "d") >> }

RawPayloads ==
  { Payload(sk, "list", acts) :
      sk \in {Absent, "alpha", " Alpha ", " "},
      acts \in UNION { [1..n -> RawSteps] : n \in 0..MaxSteps } }
  \cup { Payload(Absent, k, <<>>) : k \in {"missing", "not_list"} }

DecoderInit ==
  /\ Parked
  /\ args \in { [fn |-> "decode_model_decision", raw |-> p,
                 skill_action_aliases |-> a,
                 skill_default_action_params |-> d] :
                p \in RawPayloads, a \in AliasTables, d \in DefaultTables }
  /\ returned = NoCall

DecodeCall ==
  /\ args.fn = "decode_model_decision"
  /\ returned = NoCall
  /\ returned' = decode_model_decision(args.raw, args.skill_action_aliases,
                                       args.skill_default_action_params)
  /\ UNCHANGED <<runVars, sinkVars, args>>

DecoderNext == DecodeCall

DecoderSpec == DecoderInit /\ [][DecoderNext]_vars

\* C12: for any payload that decodes without error, the type of every
\* decoded action is one of call_skill, run_command, ask_user, finish,
\* mcp_call; a raw or unaliased type string (also the non-canonical target
\* of a skill-defined alias) never reaches the decision.
FiveCanonicalTypes ==
  {"call_skill", "run_command", "ask_user", "finish", "mcp_call"}

C12_ClosedActionEnum ==
  returned.fn = "decode_model_decision"
    => /\ \A i \in 1..Len(returned.repaired.planned_actions) :
            returned.repaired.planned_actions[i].type \in FiveCanonicalTypes
       /\ returned.error = ""
            => /\ returned.repaired.actions = "list"
               /\ returned.repaired.planned_actions # <<>>

C12_Witness ==
  /\ returned.fn = "decode_model_decision"
  /\ returned.error = ""
  /\ Len(args.raw.planned_actions) = 1
  /\ args.raw.planned_actions[1].type = "launch"
  /\ args.skill_action_aliases # <<>>
  /\ returned.repaired.planned_actions[1].type = "ask_user"

\* the type of a raw step after strip and alias resolution, "" when the
\* step names no type
RawTypeOf(step) ==
  Strip(IF ~Falsy(step.type) THEN step.type
        ELSE IF ~Falsy(step.action) THEN step.action ELSE "")

ResolvedTypeOf(step) ==
  ResolveActionType(RawTypeOf(step), returned.repaired.selected_skill,
                    NormalizeSkillAliases(args.skill_action_aliases))

\* the step has a command of its own, in params or at top level
OwnCommand(step) ==
  \/ ~Falsy(step.params_command)
  \/ /\ step.params_command = Absent
     /\ step.command # Absent
     /\ Strip(step.command) # ""

\* a default command exists for the step as a run_command
DefaultCommandFor(step) ==
  ResolveDefaultParams(RawTypeOf(step), "run_command",
                       returned.repaired.selected_skill,
                       NormalizeDefaultActionParams(
                         args.skill_default_action_params))

ListOfObjects ==
  /\ returned.fn = "decode_model_decision"
  /\ args.raw.actions = "list"
  /\ args.raw.planned_actions # <<>>
  /\ \A i \in 1..Len(args.raw.planned_actions) :
       args.raw.planned_actions[i].is_dict

\* C35: for a payload whose planned_actions is a list of objects, decoding
\* does not fail; an action whose type is unrecognized after alias
\* resolution is decoded as ask_user with the message "Unsupported action
\* type: <type>", and a run_command that has no command after the default
\* parameters are merged is decoded as ask_user with the message
\* "Non-executable action: <type>".
C35_DemotedNotRejected ==
  ListOfObjects
    => /\ returned.error = ""
       /\ Len(returned.repaired.planned_actions)
            = Len(args.raw.planned_actions)
       /\ \A i \in 1..Len(args.raw.planned_actions) :
            LET step == args.raw.planned_actions[i]
                decoded == returned.repaired.planned_actions[i]
                resolved == ResolvedTypeOf(step)
            IN /\ (resolved # "" /\ resolved \notin ActionType)
                    => decoded = [type |-> "ask_user", command |-> Absent,
                                  skill_name |-> Absent,
                                  message |->
                                    Message("Unsupported action type: ",
                                            RawTypeOf(step))]
               /\ (/\ resolved = "run_command"
                   /\ ~OwnCommand(step)
                   /\ Falsy(IF step.params_command = Absent
                            THEN DefaultCommandFor(step)
                            ELSE step.params_command))
                    => decoded = [type |-> "ask_user", command |-> Absent,
                                  skill_name |-> Absent,
                                  message |->
                                    Message("Non-executable action: ",
                                            RawTypeOf(step))]
               /\ decoded.type = "ask_user"
                    => \/ decoded.message # NoMessage
                       \/ resolved = "ask_user"

\* an unknown type is demoted with its diagnostic message
C35_Witness ==
  /\ ListOfObjects
  /\ args.raw.planned_actions[1].type = "unknown_op"
  /\ returned.error = ""
  /\ returned.repaired.planned_actions[1].type = "ask_user"
  /\ returned.repaired.planned_actions[1].message
       = Message("Unsupported action type: ", "unknown_op")

\* a run_command without any command is demoted too
C35_WitnessNoCommand ==
  /\ ListOfObjects
  /\ args.raw.planned_actions[1].type = "run_command"
  /\ args.skill_default_action_params = <<>>
  /\ returned.repaired.planned_actions[1].message
       = Message("Non-executable action: ", "run_command")

\* the type names the tests treat as external-tool calls
McpTypeNames ==
  {"mcp_call", "mcp_tool", "mcp_invoke", "call_mcp", "use_mcp_tool", "mcp"}

\* C36: an action of type mcp_call, or of one of its aliases, decodes to an
\* action of type mcp_call when it carries a tool_name, and to ask_user with
\* the message "mcp_call missing tool_name" when it does not.
C36_McpCallDecoded ==
  ListOfObjects
    => \A i \in 1..Len(args.raw.planned_actions) :
         RawTypeOf(args.raw.planned_actions[i]) \in McpTypeNames
           => LET decoded == returned.repaired.planned_actions[i]
              IN \/ decoded.type = "mcp_call"
                 \/ /\ decoded.type = "ask_user"
                    /\ decoded.message
                         = Message("mcp_call missing tool_name", "")


\* ------------------------------- llm/token_budget.py, llm/prompt_builder.py
\* largest token count configured, and longest text, explored
MaxContextTokens == 8
MaxTextLen == 20

Max(a, b) == IF a >= b THEN a ELSE b
Min(a, b) == IF a <= b THEN a ELSE b

\* a text is modelled by its length: (len(text) + 3) // 4
estimate_tokens(text_len) == (text_len + 3) \div 4

TokenBudget(max_context, headroom, prompt_tokens, disclosure_tokens) ==
  [max_context_tokens |-> max_context,
   response_headroom_tokens |-> headroom,
   allocated_prompt_tokens |-> prompt_tokens,
   allocated_disclosure_tokens |-> disclosure_tokens]

\* mutant: the disclosed tokens are not clamped to half of the budget
compute_budget_unclamped(max_context_tokens, response_headroom_tokens, disclosed_text) ==
  LET available == Max(max_context_tokens - response_headroom_tokens, 0)
  IN TokenBudget(max_context_tokens, response_headroom_tokens, available,
                 estimate_tokens(disclosed_text))

compute_budget(max_context_tokens, response_headroom_tokens, disclosed_text) ==
  LET available == Max(max_context_tokens - response_headroom_tokens, 0)
      disclosed_tokens == Min(estimate_tokens(disclosed_text),
                              Max(available \div 2, 0))
  IN TokenBudget(max_context_tokens, response_headroom_tokens, available,
                 disclosed_tokens)

\* build_prompt: the DISCLOSED_CONTEXT section holds json.dumps of all the
\* snippets; the budget is computed from the same text and returned
build_prompt(disclosed_json, max_context_tokens, response_headroom_tokens) ==
  [fn |-> "build_prompt",
   disclosed_context_text |-> disclosed_json,
   budget |-> compute_budget(max_context_tokens, response_headroom_tokens,
                             disclosed_json)]

TokenCounts == (0 - MaxContextTokens)..MaxContextTokens
TextLens == 0..MaxTextLen

BudgetInit ==
  /\ Parked
  /\ args \in [fn : {"compute_budget", "build_prompt"},
               max_context_tokens : TokenCounts,
               response_headroom_tokens : TokenCounts,
               disclosed_text : TextLens]
  /\ returned = NoCall

ComputeBudgetCall ==
  /\ args.fn = "compute_budget"
  /\ returned = NoCall
  /\ returned' = [fn |-> "compute_budget",
                  budget |-> compute_budget(args.max_context_tokens,
                                            args.response_headroom_tokens,
                                            args.disclosed_text)]
  /\ UNCHANGED <<runVars, sinkVars, args>>

BuildPromptCall ==
  /\ args.fn = "build_prompt"
  /\ returned = NoCall
  /\ returned' = build_prompt(args.disclosed_text, args.max_context_tokens,
                              args.response_headroom_tokens)
  /\ UNCHANGED <<runVars, sinkVars, args>>

BudgetNext == ComputeBudgetCall \/ BuildPromptCall

BudgetSpec == BudgetInit /\ [][BudgetNext]_vars

\* C13: for all integer max_context_tokens and response_headroom_tokens
\* (headroom larger than the context included) and any disclosed text,
\* compute_budget returns allocated_prompt_tokens = max(max_context_tokens -
\* response_headroom_tokens, 0) and 0 <= allocated_disclosure_tokens <=
\* allocated_prompt_tokens / 2.
C13_BudgetBound ==
  returned.fn = "compute_budget"
    => LET b == returned.budget
           diff == args.max_context_tokens - args.response_headroom_tokens
       IN /\ b.allocated_prompt_tokens = (IF diff > 0 THEN diff ELSE 0)
          /\ 0 <= b.allocated_disclosure_tokens
          /\ 2 * b.allocated_disclosure_tokens <= b.allocated_prompt_tokens

C13_Witness ==
  /\ returned.fn = "compute_budget"
  /\ args.response_headroom_tokens > args.max_context_tokens
  /\ args.max_context_tokens > 0
  /\ args.disclosed_text = MaxTextLen
  /\ returned.budget.allocated_prompt_tokens = 0
  /\ returned.budget.allocated_disclosure_tokens = 0

\* C14: the disclosed content placed in the prompt takes at most half of the
\* available prompt budget: the estimated tokens of the DISCLOSED_CONTEXT
\* content are at most max(max_context_tokens - response_headroom_tokens,
\* 0) / 2, however much content has been accumulated.
C14_DisclosedWithinHalfBudget ==
  returned.fn = "build_prompt"
    => 2 * estimate_tokens(returned.disclosed_context_text)
         <= returned.budget.allocated_prompt_tokens


\* --------------------------- skills/disclosure.py, security/provenance.py
\* longest stage-2 request list explored
MaxPaths == 3

\* the paths a decision may request, relative to the skill directory
RequestablePaths ==
  {"../secrets.txt", "link_out", "references/a.md", "references/b.md",
   "missing.md", "warning:../secrets.txt"}

\* the file system seen from the skill directory: where (skill_dir / rel)
\* resolves to (link_out is a symlink to ../secrets.txt; "warning:.." is a
\* directory inside the skill), and the file found there, "" when none
ResolvesInside(rel) == rel \notin {"../secrets.txt", "link_out"}

FileAt(rel) ==
  CASE rel \in {"../secrets.txt", "link_out"} -> "secrets"
    [] rel = "references/a.md" -> "a"
    [] rel = "references/b.md" -> "b"
    [] rel = "warning:../secrets.txt" -> "w"
    [] OTHER -> ""

\* length of the text of each file
TextLen(file) ==
  CASE file = "secrets" -> 6
    [] file = "a" -> 8
    [] file = "b" -> 12
    [] file = "w" -> 4
    [] OTHER -> 0

\* f"warning:{rel}"
WarningKey(rel) ==
  CASE rel = "../secrets.txt" -> "warning:../secrets.txt"
    [] rel = "link_out" -> "warning:link_out"
    [] rel = "references/a.md" -> "warning:references/a.md"
    [] rel = "references/b.md" -> "warning:references/b.md"
    [] rel = "missing.md" -> "warning:missing.md"
    [] OTHER -> "warning:warning:../secrets.txt"

Blocked == [kind |-> "placeholder", file |-> ""]
TextOf(file) == [kind |-> "text", file |-> file]

is_within_directory(rel) == ResolvesInside(rel)

find_out_of_tree_paths(relative_paths) ==
  LET outside(rel) == ~is_within_directory(rel)
  IN SelectSeq(relative_paths, outside)

EmptySnippets == [k \in {} |-> Blocked]

\* snippets[key] = value
SetItem(snippets, key, value) == (key :> value) @@ snippets

DisclosedContext(snippets, total_bytes, total_tokens) ==
  [snippets |-> snippets, total_bytes |-> total_bytes,
   total_tokens |-> total_tokens]

\* "for rel in safe_paths": read each file that exists and fits the limits
RECURSIVE Stage2Loop(_, _, _, _)
Stage2Loop(paths, max_bytes, max_tokens, acc) ==
  IF paths = <<>> THEN acc
  ELSE LET rel == Head(paths)
           file == FileAt(rel)
           text_bytes == TextLen(file)
           text_tokens == estimate_tokens(TextLen(file))
           skip == \/ file = ""
                   \/ acc.total_bytes + text_bytes > max_bytes
                   \/ acc.total_tokens + text_tokens > max_tokens
       IN Stage2Loop(Tail(paths), max_bytes, max_tokens,
            IF skip THEN acc
            ELSE DisclosedContext(SetItem(acc.snippets, rel, TextOf(file)),
                                  acc.total_bytes + text_bytes,
                                  acc.total_tokens + text_tokens))

\* "for rel in invalid": the warning placeholders
RECURSIVE WithWarnings(_, _)
WithWarnings(invalid, snippets) ==
  IF invalid = <<>> THEN snippets
  ELSE WithWarnings(Tail(invalid),
                    SetItem(snippets, WarningKey(Head(invalid)), Blocked))

\* mutant: every requested path is read
stage2_unfiltered(max_bytes, max_tokens, requested_paths) ==
  LET invalid == find_out_of_tree_paths(requested_paths)
      isSafe(rel) == \A i \in 1..Len(invalid) : invalid[i] # rel
      safe_paths == requested_paths
      read == Stage2Loop(safe_paths, max_bytes, max_tokens,
                         DisclosedContext(EmptySnippets, 0, 0))
  IN DisclosedContext(WithWarnings(invalid, read.snippets),
                      read.total_bytes, read.total_tokens)

stage2(max_bytes, max_tokens, requested_paths) ==
  LET invalid == find_out_of_tree_paths(requested_paths)
      isSafe(rel) == \A i \in 1..Len(invalid) : invalid[i] # rel
      safe_paths == SelectSeq(requested_paths, isSafe)
      read == Stage2Loop(safe_paths, max_bytes, max_tokens,
                         DisclosedContext(EmptySnippets, 0, 0))
  IN DisclosedContext(WithWarnings(invalid, read.snippets),
                      read.total_bytes, read.total_tokens)

\* most sections of a skill body, most files in its scripts directory
MaxSections == 3
MaxScripts == 2

\* len() of a section text (the parser keeps non-empty sections only) and of
\* a script path
SectionLens == {1, 4, 12}
ScriptPathLens == {4, 9}

SectionKey(i) ==
  CASE i = 1 -> "section:overview"
    [] i = 2 -> "section:usage"
    [] OTHER -> "section:notes"

ScriptKey(i) == IF i = 1 THEN "script:scripts/a.sh" ELSE "script:scripts/b.sh"

RECURSIVE SumLens(_)
SumLens(lens) == IF lens = <<>> THEN 0 ELSE Head(lens) + SumLens(Tail(lens))

\* len(sep.join(texts)) for a separator of sep_len characters
JoinedLen(lens, sep_len) ==
  IF lens = <<>> THEN 0 ELSE SumLens(lens) + sep_len * (Len(lens) - 1)

\* stage1: the first two sections of the skill, joined by a blank line; the
\* engine's limits are not read
stage1(max_bytes, max_tokens, sections) ==
  LET keys == SubSeq(sections, 1, Min(2, Len(sections)))
      content == JoinedLen(keys, 2)
  IN DisclosedContext([k \in { SectionKey(i) : i \in 1..Len(keys) } |->
                         TextOf(k)],
                      content, estimate_tokens(content))

\* stage3: one "script:<path>" key per script, joined by newlines
stage3(max_bytes, max_tokens, scripts) ==
  LET keys == [i \in 1..Len(scripts) |-> 7 + scripts[i]]
      content == JoinedLen(keys, 1)
  IN DisclosedContext([k \in { ScriptKey(i) : i \in 1..Len(scripts) } |->
                         TextOf("declared")],
                      content, estimate_tokens(content))

ByteLimits == {0, 10, 100}
TokenLimits == {2, 100}

DisclosureInit ==
  /\ Parked
  /\ args \in { [fn |-> "stage2", max_bytes |-> b, max_tokens |-> t,
                 requested_paths |-> r] :
                b \in ByteLimits, t \in TokenLimits,
                r \in UNION { [1..n -> RequestablePaths] : n \in 0..MaxPaths } }
       \cup { [fn |-> "stage1", max_bytes |-> b, max_tokens |-> t,
               sections |-> s] :
              b \in ByteLimits, t \in TokenLimits,
              s \in UNION { [1..n -> SectionLens] : n \in 0..MaxSections } }
       \cup { [fn |-> "stage3", max_bytes |-> b, max_tokens |-> t,
               scripts |-> s] :
              b \in ByteLimits, t \in TokenLimits,
              s \in UNION { [1..n -> ScriptPathLens] : n \in 0..MaxScripts } }
  /\ returned = NoCall

Stage1Call ==
  /\ args.fn = "stage1"
  /\ returned = NoCall
  /\ returned' = [fn |-> "stage1",
                  context |-> stage1(args.max_bytes, args.max_tokens,
                                     args.sections)]
  /\ UNCHANGED <<runVars, sinkVars, args>>

Stage3Call ==
  /\ args.fn = "stage3"
  /\ returned = NoCall
  /\ returned' = [fn |-> "stage3",
                  context |-> stage3(args.max_bytes, args.max_tokens,
                                     args.scripts)]
  /\ UNCHANGED <<runVars, sinkVars, args>>

Stage2Call ==
  /\ args.fn = "stage2"
  /\ returned = NoCall
  /\ returned' = [fn |-> "stage2",
                  context |-> stage2(args.max_bytes, args.max_tokens,
                                     args.requested_paths)]
  /\ UNCHANGED <<runVars, sinkVars, args>>

DisclosureNext == Stage1Call \/ Stage2Call \/ Stage3Call

DisclosureSpec == DisclosureInit /\ [][DisclosureNext]_vars


\* the requested paths, as a set, split by where they resolve
Requested == { args.requested_paths[i] : i \in 1..Len(args.requested_paths) }
OutOfTree == { rel \in Requested : ~ResolvesInside(rel) }
InTree == { rel \in Requested : ResolvesInside(rel) }

\* what stage 2 discloses when only the in-tree paths are requested
InTreeAlone ==
  LET inside(rel) == ResolvesInside(rel)
  IN stage2(args.max_bytes, args.max_tokens,
            SelectSeq(args.requested_paths, inside)).snippets

\* every out-of-tree path has its warning placeholder and no entry holds
\* the content of the file it resolves to
Contained(snippets) ==
  \A rel \in OutOfTree :
    /\ WarningKey(rel) \in DOMAIN snippets
    /\ snippets[WarningKey(rel)] = Blocked
    /\ rel \notin DOMAIN snippets
    /\ \A k \in DOMAIN snippets : snippets[k] # TextOf(FileAt(rel))

\* C15 as stated: every out-of-tree path yields its warning placeholder and
\* never file content, and every in-tree path requested in the same call is
\* disclosed as it is without the out-of-tree paths.
C15_AsStated ==
  returned.fn = "stage2"
    => /\ Contained(returned.context.snippets)
       /\ \A rel \in DOMAIN InTreeAlone :
            /\ rel \in DOMAIN returned.context.snippets
            /\ returned.context.snippets[rel] = InTreeAlone[rel]

\* C15 amended: every out-of-tree path yields its warning placeholder and
\* never file content; an in-tree path of the same call is disclosed as it
\* is without the out-of-tree paths unless its name is the warning key of a
\* blocked path, in which case the placeholder takes its entry.
C15_ProvenanceContainment ==
  returned.fn = "stage2"
    => LET snippets == returned.context.snippets
           warnings == { WarningKey(rel) : rel \in OutOfTree }
       IN /\ Contained(snippets)
          /\ \A rel \in DOMAIN InTreeAlone :
               /\ rel \in DOMAIN snippets
               /\ snippets[rel] = IF rel \in warnings THEN Blocked
                                  ELSE InTreeAlone[rel]
          /\ DOMAIN snippets = DOMAIN InTreeAlone \cup warnings

C15_Witness ==
  /\ returned.fn = "stage2"
  /\ args.requested_paths = <<"../secrets.txt", "references/a.md">>
  /\ DOMAIN returned.context.snippets
       = {"warning:../secrets.txt", "references/a.md"}
  /\ returned.context.snippets["warning:../secrets.txt"] = Blocked
  /\ returned.context.snippets["references/a.md"] = TextOf("a")

\* C32: within one stage-2 call no file is included partially, and once a
\* readable in-tree file of the request is left out (adding it would exceed
\* a cap), no file requested after it in the same call is included.
C32_CapEndsCall ==
  returned.fn = "stage2"
    => LET paths == args.requested_paths
           snippets == returned.context.snippets
           Readable(i) == ResolvesInside(paths[i]) /\ FileAt(paths[i]) # ""
           Included(i) == /\ paths[i] \in DOMAIN snippets
                          /\ snippets[paths[i]] = TextOf(FileAt(paths[i]))
       IN /\ \A k \in DOMAIN snippets :
               snippets[k] = Blocked \/ snippets[k] = TextOf(FileAt(k))
          /\ \A i, j \in 1..Len(paths) :
               (i < j /\ Readable(i) /\ ~Included(i) /\ Readable(j))
                 => ~Included(j)

\* C33: the result of every disclosure stage respects the engine's
\* ceilings: total_bytes <= max_bytes and total_tokens <= max_tokens.
C33_StagesWithinCeilings ==
  returned.fn \in {"stage1", "stage2", "stage3"}
    => /\ returned.context.total_bytes <= args.max_bytes
       /\ returned.context.total_tokens <= args.max_tokens

\* what holds: stage 2 alone keeps its totals within the ceilings
Stage2WithinCeilings ==
  returned.fn = "stage2"
    => /\ returned.context.total_bytes <= args.max_bytes
       /\ returned.context.total_tokens <= args.max_tokens


\* ------------------------------ run(): the two run-scoped accumulators
\* dict.update(other)
Update(snippets, other) == other @@ snippets

\* stage1: the first two sections of the primary skill, keyed "section:<key>"
Stage1Snippets ==
  { EmptySnippets, ("section:overview" :> TextOf("overview")) }

\* what one turn hands to accumulated_results.extend
TurnResults ==
  { <<>>,
    << StepExecutionResult(1, 0, "success", 0, "path") >>,
    << StepExecutionResult(1, 0, "success", 0, "none"),
       StepExecutionResult(2, 1, "failed", 1, "path") >> }

\* decision.required_disclosure_paths of one turn
MergeRequests ==
  UNION { [1..n -> {"../secrets.txt", "references/a.md",
                    "warning:../secrets.txt"}] : n \in 0..2 }

\* files a command of the run may have rewritten before they are read again
EditableFiles == {"a"}

Reread(snippets, edited) ==
  [k \in DOMAIN snippets |->
     IF snippets[k].kind = "text" /\ snippets[k].file \in edited
     THEN [kind |-> "text_after_edit", file |-> snippets[k].file]
     ELSE snippets[k]]

\* setup: the engine's limits and the stage-1 disclosure of the primary skill
Stage1Disclosure ==
  /\ args = NoCall
  /\ \E b \in ByteLimits, t \in TokenLimits :
       args' = [fn |-> "run", max_bytes |-> b, max_tokens |-> t]
  /\ \E primary \in Stage1Snippets :
       disclosed_snippets' = Update(disclosed_snippets, primary)
  /\ UNCHANGED <<cfgVars, loopVars, llmVars, execVars, sigVars, histVars,
                 setupVars, evVars, sinkVars, returned>>

\* one turn: accumulated_results.extend(step_results), then the stage-2
\* merge when the decision selected a known skill and requested paths
TurnAccumulate ==
  /\ args.fn = "run"
  /\ turn_index < config.max_turns
  /\ turn_index' = turn_index + 1
  /\ \E results \in TurnResults :
       accumulated_results' = accumulated_results \o results
  /\ \E target_skill \in BOOLEAN, paths \in MergeRequests,
        edited \in SUBSET EditableFiles :
       disclosed_snippets' =
         IF target_skill /\ paths # <<>>
         THEN Update(disclosed_snippets,
                     Reread(stage2(args.max_bytes, args.max_tokens,
                                   paths).snippets, edited))
         ELSE disclosed_snippets
  /\ UNCHANGED <<cfgVars, setupVars, evVars, sinkVars, pc, consecutive_self_handoff_turns,
                 blocked_self_handoff_skill, run_result, llmVars, execVars,
                 sigVars, histVars, fnVars>>

AccumulationInit ==
  /\ Parked
  /\ args = NoCall
  /\ returned = NoCall

AccumulationNext == Stage1Disclosure \/ TurnAccumulate

AccumulationSpec == AccumulationInit /\ [][AccumulationNext]_vars

\* C16: the two run-scoped accumulators are append-only across the turns of
\* a run: the recorded results before a turn are a prefix of those after it,
\* and the keys of the disclosed context only grow, with no previously
\* recorded entry deleted or changed.
IsPrefix(a, b) == Len(a) <= Len(b) /\ SubSeq(b, 1, Len(a)) = a

C16_AppendOnly ==
  [][ /\ IsPrefix(accumulated_results, accumulated_results')
      /\ DOMAIN disclosed_snippets \subseteq DOMAIN disclosed_snippets'
      /\ \A k \in DOMAIN disclosed_snippets :
           disclosed_snippets'[k] = disclosed_snippets[k] ]_vars


\* ------------------------------------------------------ runtime/retry.py
\* largest attempt number, base delay and maximum delay explored (delays in
\* whole units)
MaxAttempt == 4
MaxBaseDelay == 2
MaxDelay == 8

\* 2 ** k is a Python int; multiplying it by the float base_delay converts
\* it to a float, which raises OverflowError from 2 ** 1024 on
FloatMaxExp == 1024

Delay(d) == [error |-> "", delay |-> d]
Raised(e) == [error |-> e, delay |-> 0]

\* 2 ** k, saturated just above cap: the delay is min(..., max_delay), so a
\* product above the cap is clamped whatever its exact value (every cap
\* explored is far below 2 ** 30)
Pow2Capped(k, cap) == IF k >= 30 THEN cap + 1 ELSE Min(2 ^ k, cap + 1)

\* mutant: the delay does not grow with the attempt number
compute_backoff_delay_flat(attempt, base_delay, max_delay, jitter) ==
  LET exponent == Max(attempt - 1, 0)
  IN IF exponent >= FloatMaxExp THEN Raised("OverflowError")
     ELSE Delay(Min(base_delay
                      + jitter,
                    max_delay))

\* jitter is the draw of random.uniform(0.0, base_delay)
compute_backoff_delay(attempt, base_delay, max_delay, jitter) ==
  LET exponent == Max(attempt - 1, 0)
  IN IF exponent >= FloatMaxExp THEN Raised("OverflowError")
     ELSE Delay(Min(base_delay * Pow2Capped(exponent, Max(max_delay, 0))
                      + jitter,
                    max_delay))

AttemptNumbers ==
  (1..MaxAttempt) \cup {FloatMaxExp - 1, FloatMaxExp, FloatMaxExp + 1}

BackoffInit ==
  /\ Parked
  /\ args \in { [fn |-> "compute_backoff_delay", attempt |-> n,
                 base_delay |-> b, max_delay |-> m,
                 jitter |-> j1, next_jitter |-> j2] :
                n \in AttemptNumbers, b \in 0..MaxBaseDelay,
                m \in 0..MaxDelay, j1 \in 0..MaxBaseDelay,
                j2 \in 0..MaxBaseDelay }
  /\ args.jitter <= args.base_delay
  /\ args.next_jitter <= args.base_delay
  /\ returned = NoCall

\* the delays of attempt n and of attempt n + 1
BackoffCall ==
  /\ args.fn = "compute_backoff_delay"
  /\ returned = NoCall
  /\ returned' = [fn |-> "compute_backoff_delay",
                  this |-> compute_backoff_delay(args.attempt,
                             args.base_delay, args.max_delay, args.jitter),
                  next |-> compute_backoff_delay(args.attempt + 1,
                             args.base_delay, args.max_delay,
                             args.next_jitter)]
  /\ UNCHANGED <<runVars, sinkVars, args>>

BackoffNext == BackoffCall

BackoffSpec == BackoffInit /\ [][BackoffNext]_vars

\* C17 as stated: for every attempt n >= 1, base delay >= 0, max delay and
\* every pair of jitter draws, the delay of attempt n + 1 is at least the
\* delay of attempt n.
C17_AsStated ==
  returned.fn = "compute_backoff_delay"
    => /\ returned.this.error = ""
       /\ returned.next.error = ""
       /\ returned.next.delay >= returned.this.delay

\* C17 amended: for every attempt n with 1 <= n <= 1023 the delay of attempt
\* n + 1 is at least the delay of attempt n, with equality once the delay of
\* attempt n is clamped to max; from attempt 1025 on the function raises
\* OverflowError instead of returning a delay.
C17_BackoffMonotone ==
  returned.fn = "compute_backoff_delay"
    => /\ returned.this.error = "" <=> args.attempt <= FloatMaxExp
       /\ returned.next.error = "" <=> args.attempt + 1 <= FloatMaxExp
       /\ args.attempt + 1 <= FloatMaxExp
            => /\ returned.next.delay >= returned.this.delay
               /\ returned.this.delay <= args.max_delay
               /\ returned.this.delay = args.max_delay
                    => returned.next.delay = args.max_delay

C17_Witness ==
  /\ returned.fn = "compute_backoff_delay"
  /\ args.attempt = 1
  /\ args.base_delay = 1
  /\ args.jitter = 1
  /\ args.next_jitter = 0
  /\ args.max_delay = MaxDelay
  /\ returned.this = Delay(2)
  /\ returned.next = Delay(2)


\* ------------- runtime/orchestrator.py, _build_self_handoff_recovery_actions
\* most entries of a skill's default_action_params table
MaxDefaults == 3

NotADict == "<not a dict>"
NoCommand == "<no command>"

\* an entry of default_action_params: a value that is not a dict, a dict
\* whose "command" is missing or not a string, or a dict with a command
DefaultEntries ==
  {NotADict, NoCommand, " ", "ls", " ls ", "pwd", "find . -type f -name '*.md'"}

RECURSIVE DefaultParamTables(_)
DefaultParamTables(n) ==
  IF n = 0 THEN { <<>> }
  ELSE DefaultParamTables(n - 1)
         \cup { Append(t, e) : t \in { s \in DefaultParamTables(n - 1) :
                                         Len(s) = n - 1 },
                               e \in DefaultEntries }

\* str.strip() on the command texts that occur
StripCommand(s) ==
  CASE s = " " -> ""
    [] s = " ls " -> "ls"
    [] OTHER -> s

\* _normalize_command: a find for files by name becomes an rg listing when
\* rg is installed; without rg only rg commands are rewritten
NormalizeCommand(command, rg_available) ==
  LET normalized == StripCommand(command)
  IN IF normalized = "find . -type f -name '*.md'" /\ rg_available
     THEN "rg --files -g \"*.md\" | head -n 20"
     ELSE normalized

\* the loop over defaults.values(): entries that are no dict or carry no
\* usable command are skipped, a stripped command already seen is skipped,
\* and the loop breaks once two commands are collected
RECURSIVE CollectCommands(_, _, _)
CollectCommands(entries, seen, commands) ==
  IF entries = <<>> \/ Len(commands) >= 2 THEN commands
  ELSE LET params == Head(entries)
           normalized == StripCommand(params)
       IN IF params \in {NotADict, NoCommand} \/ normalized = ""
             \/ normalized \in seen
          THEN CollectCommands(Tail(entries), seen, commands)
          ELSE CollectCommands(Tail(entries), seen \cup {normalized},
                               Append(commands, normalized))

RecoveryFinish ==
  [type |-> "finish", command |-> "",
   message |-> "Recovered from repeated self-handoff loop."]

RecoveryCommand(command) ==
  [type |-> "run_command", command |-> command, message |-> ""]

\* mutant: a skill without default commands gets a generic listing command
build_self_handoff_recovery_actions_generic(skill, rg_available) ==
  LET collected == IF skill.found /\ skill.defaults_is_dict
                   THEN CollectCommands(skill.defaults, {}, <<>>)
                   ELSE <<>>
      commands == IF collected = <<>> THEN << "ls" >> ELSE collected
  IN [i \in 1..Len(commands) |->
        RecoveryCommand(NormalizeCommand(commands[i], rg_available))]
       \o << RecoveryFinish >>

\* skill.found = FALSE is the skill None
build_self_handoff_recovery_actions(skill, rg_available) ==
  LET commands == IF skill.found /\ skill.defaults_is_dict
                  THEN CollectCommands(skill.defaults, {}, <<>>)
                  ELSE <<>>
  IN [i \in 1..Len(commands) |->
        RecoveryCommand(NormalizeCommand(commands[i], rg_available))]
       \o << RecoveryFinish >>

RecoveryInit ==
  /\ Parked
  /\ args \in { [fn |-> "_build_self_handoff_recovery_actions",
                 skill |-> [found |-> f, defaults_is_dict |-> d,
                            defaults |-> t],
                 rg_available |-> rg] :
                f \in BOOLEAN, d \in BOOLEAN,
                t \in DefaultParamTables(MaxDefaults), rg \in BOOLEAN }
  /\ returned = NoCall

RecoveryCall ==
  /\ args.fn = "_build_self_handoff_recovery_actions"
  /\ returned = NoCall
  /\ returned' = [fn |-> "_build_self_handoff_recovery_actions",
                  actions |-> build_self_handoff_recovery_actions(
                                args.skill, args.rg_available)]
  /\ UNCHANGED <<runVars, sinkVars, args>>

RecoveryNext == RecoveryCall

RecoverySpec == RecoveryInit /\ [][RecoveryNext]_vars

\* the recovery commands of a returned action list
RunCommandsOf(actions) ==
  { i \in 1..Len(actions) : actions[i].type = "run_command" }

\* the usable commands of a table: stripped, non-blank texts of dict entries
UsableCommands(skill) ==
  IF skill.found /\ skill.defaults_is_dict
  THEN { StripCommand(skill.defaults[i]) : i \in 1..Len(skill.defaults) }
         \ {NotADict, NoCommand, ""}
  ELSE {}

\* C25 as stated: the recovery decision consists of one or two run_command
\* actions followed by a finish action as its last action (generic commands
\* standing in when the skill's default-parameter table has no command).
C25_AsStated ==
  returned.fn = "_build_self_handoff_recovery_actions"
    => /\ Cardinality(RunCommandsOf(returned.actions)) \in {1, 2}
       /\ returned.actions[Len(returned.actions)].type = "finish"

\* C25 amended: the recovery decision consists of min(2, n) run_command
\* actions, n being the number of distinct usable commands of the skill's
\* default-parameter table, followed by exactly one finish action, its last
\* action; every command is the normalized form of a usable command of the
\* table and no two actions carry the same table command; when the table has
\* no usable command, or there is no skill, the decision is the finish action
\* alone.
C25_RecoveryShape ==
  returned.fn = "_build_self_handoff_recovery_actions"
    => LET actions == returned.actions
           usable == UsableCommands(args.skill)
           n == Len(actions)
       IN /\ n >= 1
          /\ actions[n] = RecoveryFinish
          /\ \A i \in 1..(n - 1) : actions[i].type = "run_command"
          /\ n - 1 = Min(2, Cardinality(usable))
          /\ \A i \in 1..(n - 1) :
               \E c \in usable :
                 actions[i].command = NormalizeCommand(c, args.rg_available)
          /\ \A i, j \in 1..(n - 1) :
               actions[i].command = actions[j].command => i = j
          /\ usable = {} => actions = << RecoveryFinish >>

\* a table with a non-dict entry, a blank command and one command given
\* twice with different padding yields that one command and the finish
C25_Witness ==
  /\ returned.fn = "_build_self_handoff_recovery_actions"
  /\ args.skill = [found |-> TRUE, defaults_is_dict |-> TRUE,
                   defaults |-> << " ls ", " ", "ls" >>]
  /\ returned.actions = << RecoveryCommand("ls"), RecoveryFinish >>

\* a skill whose table holds no command: the finish action alone
C25_WitnessNoCommands ==
  /\ returned.fn = "_build_self_handoff_recovery_actions"
  /\ args.skill.found
  /\ args.skill.defaults = << NotADict, " " >>
  /\ returned.actions = << RecoveryFinish >>


\* ---------------------------------------------------- skills/router.py
\* most skills in the catalog handed to prefilter, largest top_k explored
MaxCatalog == 3
MaxTopK == 2

\* raw scores of _score, in thousandths of a point; thresholds likewise
RawScores == {54996, 55004, 55006, 60000}
Thresholds == {55000, 99000}

\* round(score, 2): to the nearest hundredth (no raw score is a tie)
Round2(score) == ((score + 5) \div 10) * 10

SkillCandidate(skill, score) == [skill_name |-> skill, score |-> score]

\* "for skill in skills": keep the skills whose raw score reaches the
\* threshold, with the rounded score
RECURSIVE Scored(_, _, _)
Scored(scores, threshold, index) ==
  IF index > Len(scores) THEN <<>>
  ELSE (IF scores[index] >= threshold
        THEN << SkillCandidate(index, Round2(scores[index])) >>
        ELSE <<>>)
         \o Scored(scores, threshold, index + 1)

\* list.sort(key=score, reverse=True) is stable: an item goes behind every
\* item already placed whose score is not lower
RECURSIVE InsertByScore(_, _)
InsertByScore(item, sorted) ==
  IF sorted = <<>> THEN << item >>
  ELSE IF Head(sorted).score >= item.score
       THEN << Head(sorted) >> \o InsertByScore(item, Tail(sorted))
       ELSE << item >> \o sorted

RECURSIVE SortByScore(_, _)
SortByScore(items, sorted) ==
  IF items = <<>> THEN sorted
  ELSE SortByScore(Tail(items), InsertByScore(Head(items), sorted))

\* lst[:k]: the first k items, or all but the last -k when k is negative
Slice(lst, k) ==
  SubSeq(lst, 1, IF k >= 0 THEN Min(k, Len(lst)) ELSE Max(Len(lst) + k, 0))

\* mutant: the list is cut to top_k before it is sorted
router_prefilter_unsorted(scores, top_k, threshold) ==
  SortByScore(Slice(Scored(scores, threshold, 1), top_k), <<>>)

\* SkillRouter.prefilter, the skills given by their raw scores
router_prefilter(scores, top_k, threshold) ==
  Slice(SortByScore(Scored(scores, threshold, 1), <<>>), top_k)

RouterInit ==
  /\ Parked
  /\ args \in { [fn |-> "prefilter", scores |-> s, top_k |-> k,
                 min_score |-> m] :
                s \in UNION { [1..n -> RawScores] : n \in 0..MaxCatalog },
                k \in -1..MaxTopK, m \in Thresholds }
  /\ returned = NoCall

RouterCall ==
  /\ args.fn = "prefilter"
  /\ returned = NoCall
  /\ returned' = [fn |-> "prefilter",
                  candidates |-> router_prefilter(args.scores, args.top_k,
                                                  args.min_score)]
  /\ UNCHANGED <<runVars, sinkVars, args>>

RouterNext == RouterCall

RouterSpec == RouterInit /\ [][RouterNext]_vars

\* the skills of the call whose raw score reaches the threshold
Matching == { i \in 1..Len(args.scores) : args.scores[i] >= args.min_score }

Returned == { returned.candidates[i].skill_name :
                i \in 1..Len(returned.candidates) }

\* threshold, order and truncation by score, whatever top_k is
RankedByScore ==
  LET candidates == returned.candidates
  IN /\ \A i \in 1..Len(candidates) :
          /\ candidates[i].skill_name \in Matching
          /\ candidates[i].score =
               Round2(args.scores[candidates[i].skill_name])
          /\ candidates[i].score >= args.min_score
     /\ \A i, j \in 1..Len(candidates) :
          i < j => /\ candidates[i].score >= candidates[j].score
                   /\ candidates[i].skill_name # candidates[j].skill_name
     /\ \A out \in Matching \ Returned :
          \A i \in 1..Len(candidates) :
            Round2(args.scores[out]) <= candidates[i].score
     /\ Matching = {} => candidates = <<>>

\* C34 as stated: prefilter returns only skills scoring at or above the
\* threshold, in non-increasing score order, at most top_k of them, no
\* skill left out by the truncation scoring higher than a returned one, and
\* the empty list when no skill reaches the threshold.
C34_AsStated ==
  returned.fn = "prefilter"
    => /\ RankedByScore
       /\ Len(returned.candidates) <= args.top_k

\* C34 amended: as stated for top_k >= 0, where exactly
\* min(top_k, number of skills at or above the threshold) candidates are
\* returned; for a negative top_k the slice drops the -top_k lowest
\* candidates instead, so more than top_k candidates can be returned.
C34_PrefilterRanked ==
  returned.fn = "prefilter"
    => /\ RankedByScore
       /\ args.top_k >= 0
            => Len(returned.candidates)
                 = prefilter(Cardinality(Matching), args.top_k)
       /\ args.top_k < 0
            => Len(returned.candidates)
                 = Max(Cardinality(Matching) + args.top_k, 0)

\* three skills reach the threshold, the best two are returned, best first
C34_Witness ==
  /\ returned.fn = "prefilter"
  /\ args.scores = <<55004, 60000, 55006>>
  /\ args.min_score = 55000
  /\ args.top_k = 2
  /\ returned.candidates
       = << SkillCandidate(2, 60000), SkillCandidate(3, 55010) >>


\* ----------------------------------------------- runtime/chat_session.py
\* most append calls on one memory, largest max_entries explored, and most
\* passes of the while loop of build_context that are followed
MaxAppends == 3
MaxEntries == 2
MaxPasses == 12

\* a text is its length and whether its last three characters are "...";
\* every text here is already stripped
Text(len, dots) == [len |-> len, dots |-> dots]

\* the summary argument of append: None or blank (length 0) or a text
RawSummaries ==
  {Text(0, FALSE), Text(20, FALSE), Text(33, FALSE), Text(35, TRUE),
   Text(70, FALSE), Text(150, FALSE)}

SummaryCharLimits == {10, 100}
ContextTokenLimits == {0, 35, 40, 80, 1000}

\* summarize_text: the text, or its first max_chars characters and "..."
summarize_text(text, max_chars) ==
  IF text.len <= max_chars THEN text ELSE Text(max_chars + 3, TRUE)

\* cleaned[:max_chars] + "..." == text, for a text longer than max_chars
SameAfterClip(text, max_chars) ==
  text.len <= max_chars \/ (text.len = max_chars + 3 /\ text.dots)

SessionTaskRecord(run_id, summary) == [run_id |-> run_id, summary |-> summary]

\* len(json.dumps(record.to_payload())) without the summary text: the five
\* keys, task, run_id, status and timestamp
RecordOverhead == 100

\* len(json.dumps(payload)): brackets, records, ", " between records
JsonLen(payload) ==
  2 + SumLens([i \in 1..Len(payload) |->
                 RecordOverhead + payload[i].summary.len])
    + 2 * (IF payload = <<>> THEN 0 ELSE Len(payload) - 1)

payload_tokens(payload) == estimate_tokens(JsonLen(payload))

\* lst[-k:] for k >= 0: the last k items, and the whole list when k = 0
LastItems(lst, k) ==
  IF k = 0 \/ k >= Len(lst) THEN lst
  ELSE SubSeq(lst, Len(lst) - k + 1, Len(lst))

\* mutant: the oldest records are kept
append_record_oldest(records, record, max_entries) ==
  LET appended == Append(records, record)
  IN IF Len(appended) > max_entries
     THEN SubSeq(appended, 1, Min(Len(appended), max_entries))
     ELSE appended

\* the list after self._records.append(record) and the cut to max_entries
append_record(records, record, max_entries) ==
  LET appended == Append(records, record)
  IN IF Len(appended) > max_entries
     THEN LastItems(appended, max_entries)
     ELSE appended

\* markers: no record has a run_id below 1
Diverged == << SessionTaskRecord(-1, Text(0, FALSE)) >>

\* the while loop of build_context and the check after it
RECURSIVE ContextLoop(_, _, _)
ContextLoop(payload, max_context_tokens, passes) ==
  IF payload = <<>> \/ payload_tokens(payload) <= max_context_tokens
  THEN payload
  ELSE IF passes = 0 THEN Diverged
  ELSE IF Len(payload) = 1
  THEN LET summary == payload[1].summary
           limit == Max(32, summary.len \div 2)
           clipped == summarize_text(summary, limit)
       IN IF SameAfterClip(summary, limit) THEN <<>>
          ELSE ContextLoop(<< [payload[1] EXCEPT !.summary = clipped] >>,
                           max_context_tokens, passes - 1)
  ELSE ContextLoop(Tail(payload), max_context_tokens, passes - 1)

build_context(records, max_entries, max_context_tokens) ==
  ContextLoop(LastItems(records, max_entries), max_context_tokens, MaxPasses)

NotBuilt == << SessionTaskRecord(0, Text(0, FALSE)) >>

ChatMemory(records, appended, context) ==
  [fn |-> "ChatSessionMemory", records |-> records, appended |-> appended,
   context |-> context]

ChatInit ==
  /\ Parked
  /\ args \in { [fn |-> "ChatSessionMemory", max_entries |-> e,
                 max_summary_chars |-> c, max_context_tokens |-> t] :
                e \in 0..MaxEntries, c \in SummaryCharLimits,
                t \in ContextTokenLimits }
  /\ returned = ChatMemory(<<>>, <<>>, NotBuilt)

\* ChatSessionMemory.append; appended is the history of all records stored
ChatAppend ==
  /\ returned.fn = "ChatSessionMemory"
  /\ Len(returned.appended) < MaxAppends
  /\ \E summary \in RawSummaries :
       LET summary_text == IF summary.len = 0 THEN Text(12, FALSE)
                           ELSE summary
           record == SessionTaskRecord(Len(returned.appended) + 1,
                       summarize_text(summary_text, args.max_summary_chars))
       IN returned' = ChatMemory(
            append_record(returned.records, record, args.max_entries),
            Append(returned.appended, record), NotBuilt)
  /\ UNCHANGED <<runVars, sinkVars, args>>

ChatBuildContext ==
  /\ returned.fn = "ChatSessionMemory"
  /\ returned.context = NotBuilt
  /\ returned' = [returned EXCEPT !.context =
                    build_context(returned.records, args.max_entries,
                                  args.max_context_tokens)]
  /\ UNCHANGED <<runVars, sinkVars, args>>

ChatNext == ChatAppend \/ ChatBuildContext

ChatSpec == ChatInit /\ [][ChatNext]_vars

\* the k most recent records appended so far, in order
MostRecent(k) ==
  LET n == Len(returned.appended)
  IN SubSeq(returned.appended, n - Min(n, k) + 1, n)

\* the context is a suffix of the retained records, the summary of its
\* first record possibly shortened, within the token budget
ContextWithinBudget ==
  returned.context # NotBuilt
    => LET context == returned.context
           records == returned.records
           skipped == Len(records) - Len(context)
       IN /\ context # Diverged
          /\ Len(context) <= Len(records)
          /\ \A i \in 1..Len(context) :
               /\ context[i].run_id = records[skipped + i].run_id
               /\ i > 1 => context[i] = records[skipped + i]
               /\ context[i].summary.len <= records[skipped + i].summary.len
          /\ context # <<>>
               => payload_tokens(context) <= args.max_context_tokens

\* C37 as stated: after any sequence of append calls the memory retains
\* exactly the min(n, max_entries) most recent records in order, and
\* build_context terminates with the empty list or a chronological suffix
\* of the retained records within max_context_tokens.
C37_AsStated ==
  returned.fn = "ChatSessionMemory"
    => /\ returned.records = MostRecent(args.max_entries)
       /\ ContextWithinBudget

\* C37 amended: with max_entries >= 1 the memory retains exactly the
\* min(n, max_entries) most recent records in order; with max_entries = 0
\* the cut records[-0:] keeps the whole list, so all n records are retained;
\* build_context always terminates and returns the empty list or a
\* chronological suffix of the retained records (oldest dropped first, the
\* last remaining summary shortened if needed) within max_context_tokens.
C37_RecentWithinBudget ==
  returned.fn = "ChatSessionMemory"
    => /\ args.max_entries >= 1
            => returned.records = MostRecent(args.max_entries)
       /\ args.max_entries = 0 => returned.records = returned.appended
       /\ ContextWithinBudget

\* three appends into a memory of two entries; the context keeps only the
\* newest record, with its summary shortened
C37_Witness ==
  /\ returned.fn = "ChatSessionMemory"
  /\ args.max_entries = 2
  /\ Len(returned.appended) = 3
  /\ Len(returned.records) = 2
  /\ returned.context # NotBuilt
  /\ Len(returned.context) = 1
  /\ returned.context[1].run_id = 3
  /\ returned.context[1].summary.len < returned.records[2].summary.len


\* -------------------------- logging/jsonl_sink.py, logging/transcript.py
\* mutant: the append is entered without taking the lock
SinkAcquire_unlocked(w) ==
  /\ sink_state.at[w] = "idle"
  /\ sink_state.completed[w] + sink_state.raised[w] < MaxRecords
  /\ sink_state' = [sink_state EXCEPT !.at[w] = "locked"]

\* write(): "with self._lock" is entered when the lock is free
SinkAcquire(w) ==
  /\ sink_state.at[w] = "idle"
  /\ sink_state.completed[w] + sink_state.raised[w] < MaxRecords
  /\ sink_state.lock = 0
  /\ sink_state' = [sink_state EXCEPT !.lock = w, !.at[w] = "locked"]

\* self._path.open("a") returned a handle
SinkOpen(w) ==
  /\ sink_state.at[w] = "locked"
  /\ sink_state' = [sink_state EXCEPT !.at[w] = "open"]

\* self._path.open("a") raised: the with statement releases the lock
SinkOpenRaises(w) ==
  /\ sink_state.at[w] = "locked"
  /\ sink_state' = [sink_state EXCEPT !.at[w] = "idle",
                          !.lock = IF sink_state.lock = w THEN 0 ELSE sink_state.lock,
                          !.raised[w] = sink_state.raised[w] + 1]

\* handle.write / the flush of close: the next piece is appended to the file
SinkWriteChunk(w) ==
  /\ sink_state.at[w] = "open"
  /\ sink_state.flushed[w] < MaxChunks
  /\ sink_state' = [sink_state EXCEPT
               !.file = Append(sink_state.file,
                               Chunk(w, sink_state.completed[w] + sink_state.raised[w] + 1,
                                     sink_state.flushed[w] + 1)),
               !.flushed[w] = sink_state.flushed[w] + 1]

\* the handle is closed with the whole record in the file
SinkClose(w) ==
  /\ sink_state.at[w] = "open"
  /\ sink_state.flushed[w] = MaxChunks
  /\ sink_state' = [sink_state EXCEPT !.at[w] = "closed"]

\* leaving "with self._lock": the lock is released and write returns
SinkRelease(w) ==
  /\ sink_state.at[w] = "closed"
  /\ sink_state' = [sink_state EXCEPT !.at[w] = "idle",
                          !.lock = IF sink_state.lock = w THEN 0 ELSE sink_state.lock,
                          !.flushed[w] = 0,
                          !.completed[w] = sink_state.completed[w] + 1]

SinkInit ==
  /\ Parked
  /\ args \in [fn : {"JsonlSink.write", "LlmTranscriptSink.write"}]
  /\ returned = NoCall

SinkNext ==
  \E w \in Writers :
    /\ \/ SinkAcquire(w)
       \/ SinkOpen(w)
       \/ SinkOpenRaises(w)
       \/ SinkWriteChunk(w)
       \/ SinkClose(w)
       \/ SinkRelease(w)
    /\ UNCHANGED <<runVars, fnVars>>

SinkSpec == SinkInit /\ [][SinkNext]_vars

\* C23: at most one caller of write is between taking the lock and leaving
\* the with statement; the pieces of every record lie next to each other and
\* in order in the file, so the file is a sequence of whole records followed
\* at most by the part written so far of the lock holder's record; every
\* call that has returned has its whole record in the file.
InsideAppend == { w \in Writers : sink_state.at[w] \in {"locked", "open", "closed"} }

Contiguous(file) ==
  \A i \in 1..Len(file) :
    /\ file[i].chunk > 1
         => (i > 1 /\ file[i - 1] = [file[i] EXCEPT !.chunk = file[i].chunk - 1])
    /\ (file[i].chunk < MaxChunks /\ i < Len(file))
         => file[i + 1] = [file[i] EXCEPT !.chunk = file[i].chunk + 1]

Occurrences(file, chunk) ==
  Cardinality({ i \in 1..Len(file) : file[i] = chunk })

C23_SerializedAppends ==
  /\ Cardinality(InsideAppend) <= 1
  /\ InsideAppend = IF sink_state.lock = 0 THEN {} ELSE {sink_state.lock}
  /\ Contiguous(sink_state.file)
  /\ \A i \in 1..Len(sink_state.file) :
       (sink_state.file[i].chunk < MaxChunks /\ i = Len(sink_state.file))
         => /\ sink_state.lock = sink_state.file[i].writer
            /\ sink_state.at[sink_state.lock] = "open"
  /\ \A w \in Writers, c \in 1..MaxChunks :
       sink_state.at[w] = "idle"
         => Cardinality({ i \in 1..Len(sink_state.file) :
                            /\ sink_state.file[i].writer = w
                            /\ sink_state.file[i].chunk = c })
              = sink_state.completed[w]
  /\ \A i \in 1..Len(sink_state.file) :
       Occurrences(sink_state.file, sink_state.file[i]) = 1

C23_Witness ==
  /\ \A w \in Writers : sink_state.completed[w] = MaxRecords /\ sink_state.at[w] = "idle"
  /\ Len(sink_state.file) = MaxWriters * MaxRecords * MaxChunks
  /\ sink_state.file[1].writer # sink_state.file[MaxChunks + 1].writer
  /\ sink_state.lock = 0

====
